---- MODULE Spec2Model ----
(***************************************************************************)
(* Timetable candidate generation and ranking (hy-table-backend).          *)
(*                                                                         *)
(* The module models SchedulerService.generateCandidates and the helpers  *)
(* it calls (filterValidCourses, sortCoursesByPriority, backtrack,        *)
(* hasConflict, isValidSelection, buildTimetableGrid, scoreCandidate,     *)
(* countConsecutiveViolations), the time utilities of                     *)
(* utils/timeParser.ts, the response builder's buildRecommendationResponse *)
(* and generateFailureExplanation, the catalog cache of                    *)
(* AirtableService.getCourses, the conversion of fixed lectures in the     *)
(* POST /api/recommend route, and the request-based scheduler of           *)
(* services/scheduler.ts (filterInvalidCourses, prioritizeCourses,         *)
(* generateCandidates with its generate closure, greedyGenerate).          *)
(*                                                                         *)
(* Specifications: Spec (one generateCandidates call and its response),    *)
(* SpecOverlap (timeSlotsOverlap), SpecAirtable (getCourses), SpecFailure  *)
(* (generateFailureExplanation), SpecSearch / SpecSearchRuns (backtrack,   *)
(* one step at a time) and SpecRequest (the request-based scheduler).      *)
(*                                                                         *)
(* Representation of JavaScript values:                                    *)
(*   - a time string "HH:MM" is the pair <<HH, MM>> of the two numbers     *)
(*     that timeStr.split(':').map(Number) yields;                         *)
(*   - any other string is the sequence of its characters;                 *)
(*   - a courseId is a string of digits, kept as the sequence of digits;   *)
(*   - an absent / null / false boolean member is FALSE, an absent / null  *)
(*     numeric member is 0 and an absent array member is <<>>: the code    *)
(*     only ever tests these members for truthiness (and length > 0).      *)
(***************************************************************************)
EXTENDS Integers, Sequences, FiniteSets, TLC

VARIABLES
    request,    \* the arguments of the current call (the request)
    result,     \* what the call returned (candidates and debug), or NoResult
    pc,         \* the position of the call: "idle" before it, then per spec
    slotA,      \* first argument of a timeSlotsOverlap call
    slotB,      \* second argument of a timeSlotsOverlap call
    overlapAB,  \* timeSlotsOverlap(slotA, slotB), once applied
    overlapBA,  \* timeSlotsOverlap(slotB, slotA), once applied
    opc,        \* "idle" before timeSlotsOverlap was applied, "done" after
    response,   \* what buildRecommendationResponse returned, or NoResponse
    cache,      \* AirtableService.cache: NoCache (null) or the cached catalog
    cachePromise, \* AirtableService.cachePromise: 0 (null) or a promise
    promises,   \* the promises fetchFromAirtable has returned, by number
    callers,    \* the getCourses calls: position, awaited promise, outcome
    stack       \* the open calls of backtrack, the innermost last

vars == <<request, result, pc, slotA, slotB, overlapAB, overlapBA, opc, response, cache, cachePromise, promises, callers, stack>>

----------------------------------------------------------------------------
(* Generic helpers                                                         *)

RECURSIVE FlatSlots(_)
\* slots.push(...x.meetingTimes) for each x of xs, in order
FlatSlots(xs) ==
    IF xs = <<>> THEN <<>> ELSE Head(xs).meetingTimes \o FlatSlots(Tail(xs))

Abs(n) == IF n < 0 THEN -n ELSE n

\* the second argument whatever the first
MaxPassThrough(a, b) == b

Max(a, b) == IF a >= b THEN a ELSE b

\* a sort that places equal elements in the reverse of their input order
sortWithTiesReversed(s, cmp) ==
    LET before(j, i) == cmp[j, i] < 0 \/ (cmp[j, i] = 0 /\ j > i)
        rank(i)      == 1 + Cardinality({ j \in DOMAIN s : j # i /\ before(j, i) })
    IN  [k \in DOMAIN s |-> s[CHOOSE i \in DOMAIN s : rank(i) = k]]

\* Array.prototype.sort with a comparator (stable since ES2019). cmp[i, j] is
\* the comparator's value on (s[i], s[j]). The element at index i lands
\* after every element that compares before it and after every earlier
\* element that compares equal to it.
sortWith(s, cmp) ==
    LET before(j, i) == cmp[j, i] < 0 \/ (cmp[j, i] = 0 /\ j < i)
        rank(i)      == 1 + Cardinality({ j \in DOMAIN s : j # i /\ before(j, i) })
    IN  [k \in DOMAIN s |-> s[CHOOSE i \in DOMAIN s : rank(i) = k]]

----------------------------------------------------------------------------
(* Strings                                                                 *)

\* String.prototype.toLowerCase on the characters the model uses
LowerChar(c) ==
    CASE c = "A" -> "a"
      [] c = "I" -> "i"
      [] c = "T" -> "t"
      [] OTHER   -> c

toLowerCase(s) == [i \in DOMAIN s |-> LowerChar(s[i])]

\* String.prototype.includes: sub occurs in s as a contiguous substring
includes(s, sub) ==
    \E k \in 0..(Len(s) - Len(sub)) :
        \A i \in 1..Len(sub) : s[k + i] = sub[i]

\* Array.prototype.includes
arrayIncludes(arr, x) == \E i \in DOMAIN arr : arr[i] = x

RECURSIVE localeCompare(_, _)
\* a.localeCompare(b) on digit strings: negative, zero or positive
localeCompare(a, b) ==
    IF a = <<>> /\ b = <<>> THEN 0
    ELSE IF a = <<>> THEN -1
    ELSE IF b = <<>> THEN 1
    ELSE IF Head(a) < Head(b) THEN -1
    ELSE IF Head(a) > Head(b) THEN 1
    ELSE localeCompare(Tail(a), Tail(b))

----------------------------------------------------------------------------
(* utils/timeParser.ts                                                     *)

\* const [hours, minutes] = timeStr.split(':').map(Number)
timeToMinutes(timeStr) == timeStr[1] * 60 + timeStr[2]

\* the comparison with <= in place of <
timeSlotsOverlapInclusive(slot1, slot2) ==
    IF slot1.day # slot2.day THEN FALSE
    ELSE LET start1 == timeToMinutes(slot1.startTime)
             end1   == timeToMinutes(slot1.endTime)
             start2 == timeToMinutes(slot2.startTime)
             end2   == timeToMinutes(slot2.endTime)
         IN  start1 <= end2 /\ start2 <= end1

timeSlotsOverlap(slot1, slot2) ==
    IF slot1.day # slot2.day THEN FALSE
    ELSE LET start1 == timeToMinutes(slot1.startTime)
             end1   == timeToMinutes(slot1.endTime)
             start2 == timeToMinutes(slot2.startTime)
             end2   == timeToMinutes(slot2.endTime)
         IN  start1 < end2 /\ start2 < end1

isMorningTime(timeStr) == timeToMinutes(timeStr) < 12 * 60

\* /^([0-1][0-9]|2[0-3]):[0-5][0-9]$/ on the two numbers of the string
isValidTimeFormat(timeStr) == timeStr[1] \in 0..23 /\ timeStr[2] \in 0..59

overlapsLunchTime(slot) ==
    LET start      == timeToMinutes(slot.startTime)
        end        == timeToMinutes(slot.endTime)
        lunchStart == 12 * 60
        lunchEnd   == 13 * 60
    IN  start < lunchEnd /\ end > lunchStart

----------------------------------------------------------------------------
(* services/schedulerService.ts                                            *)

NoConstraints ==
    [ avoidDays             |-> <<>>,
      preferOnlineOnlyDays  |-> <<>>,
      avoidMorning          |-> FALSE,
      keepLunchTime         |-> FALSE,
      maxClassesPerDay      |-> 0,
      maxConsecutiveClasses |-> 0,
      avoidTeamProjects     |-> FALSE,
      preferOnlineClasses   |-> FALSE ]

\* some slot of the course overlaps some slot of some fixed lecture
overlapsFixed(course, fixedLectures) ==
    \E f \in DOMAIN fixedLectures :
    \E i \in DOMAIN course.meetingTimes :
    \E j \in DOMAIN fixedLectures[f].meetingTimes :
        timeSlotsOverlap(course.meetingTimes[i], fixedLectures[f].meetingTimes[j])

\* some slot of the course overlaps some blocked time
overlapsBlocked(course, blockedTimes) ==
    \E b \in DOMAIN blockedTimes :
    \E i \in DOMAIN course.meetingTimes :
        timeSlotsOverlap(course.meetingTimes[i], blockedTimes[b])

\* the filter without its blocked-times loop
filterValidCoursesNoBlocked(courses, fixedLectures, blockedTimes, constraints) ==
    SelectSeq(courses, LAMBDA course :
        /\ Len(course.meetingTimes) # 0
        /\ ~ overlapsFixed(course, fixedLectures))

\* the filter with a blocked-times loop that compares the days only
filterValidCoursesDayOnly(courses, fixedLectures, blockedTimes, constraints) ==
    SelectSeq(courses, LAMBDA course :
        /\ Len(course.meetingTimes) # 0
        /\ ~ overlapsFixed(course, fixedLectures)
        /\ ~ \E b \in DOMAIN blockedTimes :
               \E i \in DOMAIN course.meetingTimes :
                   course.meetingTimes[i].day = blockedTimes[b].day)

\* the constraints parameter is accepted and never read
filterValidCourses(courses, fixedLectures, blockedTimes, constraints) ==
    SelectSeq(courses, LAMBDA course :
        /\ Len(course.meetingTimes) # 0
        /\ ~ overlapsFixed(course, fixedLectures)
        /\ ~ overlapsBlocked(course, blockedTimes))

hasConflict(course, selection) ==
    \E s \in DOMAIN selection :
    \E i \in DOMAIN course.meetingTimes :
    \E j \in DOMAIN selection[s].meetingTimes :
        timeSlotsOverlap(course.meetingTimes[i], selection[s].meetingTimes[j])

\* dayCounts[slot.day] over every slot of every selected course
isValidSelection(courses, constraints) ==
    IF constraints.maxClassesPerDay # 0
    THEN LET slots == FlatSlots(courses)
             count(day) == Cardinality({ i \in DOMAIN slots : slots[i].day = day })
         IN  \A i \in DOMAIN slots :
                 ~ (count(slots[i].day) > constraints.maxClassesPerDay)
    ELSE TRUE

buildTimetableGrid(courses, fixedLectures) ==
    FlatSlots(courses) \o FlatSlots(fixedLectures)

\* candidates.push({ courses: [...currentSelection], totalCredits, score: 0, ... })
newCandidate(currentSelection, currentCredits, fixedLectures) ==
    [ courses       |-> currentSelection,
      totalCredits  |-> currentCredits,
      score         |-> 0,
      timetableGrid |-> buildTimetableGrid(currentSelection, fixedLectures),
      conflicts     |-> <<>>,
      warnings      |-> <<>> ]

RECURSIVE backtrack(_, _, _, _, _, _, _, _, _, _, _, _)
RECURSIVE backtrackLoop(_, _, _, _, _, _, _, _, _, _, _, _, _)
RECURSIVE backtrackLoopWide(_, _, _, _, _, _, _, _, _, _, _, _, _)
RECURSIVE backtrackLoopAll(_, _, _, _, _, _, _, _, _, _, _, _, _)

\* the loop with a credit limit of targetCredits + 5
backtrackLoopWide(i, courses, fixedLectures, blockedTimes, targetCredits, constraints, strategy, tracks, interests, currentSelection, currentCredits, candidates, maxCandidates) ==
    IF i > Len(courses) THEN candidates
    ELSE LET course == courses[i]
             skip   == \/ currentCredits + course.credits > targetCredits + 5
                       \/ hasConflict(course, currentSelection)
             after  == IF skip THEN candidates
                       ELSE backtrack(SubSeq(courses, i + 1, Len(courses)),
                                      fixedLectures, blockedTimes, targetCredits,
                                      constraints, strategy, tracks, interests,
                                      Append(currentSelection, course),
                                      currentCredits + course.credits,
                                      candidates, maxCandidates)
         IN  backtrackLoopWide(i + 1, courses, fixedLectures, blockedTimes,
                               targetCredits, constraints, strategy, tracks, interests,
                               currentSelection, currentCredits, after, maxCandidates)

\* the loop recursing on the whole list instead of courses.slice(i + 1)
backtrackLoopAll(i, courses, fixedLectures, blockedTimes, targetCredits, constraints, strategy, tracks, interests, currentSelection, currentCredits, candidates, maxCandidates) ==
    IF i > Len(courses) THEN candidates
    ELSE LET course == courses[i]
             skip   == \/ currentCredits + course.credits > targetCredits + 3
                       \/ hasConflict(course, currentSelection)
             after  == IF skip THEN candidates
                       ELSE backtrack(courses,
                                      fixedLectures, blockedTimes, targetCredits,
                                      constraints, strategy, tracks, interests,
                                      Append(currentSelection, course),
                                      currentCredits + course.credits,
                                      candidates, maxCandidates)
         IN  backtrackLoopAll(i + 1, courses, fixedLectures, blockedTimes,
                              targetCredits, constraints, strategy, tracks, interests,
                              currentSelection, currentCredits, after, maxCandidates)

RECURSIVE backtrackLoopBreak(_, _, _, _, _, _, _, _, _, _, _, _, _)
\* the loop leaving at the first skipped course (break in place of continue)
backtrackLoopBreak(i, courses, fixedLectures, blockedTimes, targetCredits, constraints, strategy, tracks, interests, currentSelection, currentCredits, candidates, maxCandidates) ==
    IF i > Len(courses) THEN candidates
    ELSE LET course == courses[i]
             skip   == \/ currentCredits + course.credits > targetCredits + 3
                       \/ hasConflict(course, currentSelection)
         IN  IF skip THEN candidates
             ELSE backtrackLoopBreak(i + 1, courses, fixedLectures, blockedTimes,
                      targetCredits, constraints, strategy, tracks, interests,
                      currentSelection, currentCredits,
                      backtrack(SubSeq(courses, i + 1, Len(courses)),
                                fixedLectures, blockedTimes, targetCredits,
                                constraints, strategy, tracks, interests,
                                Append(currentSelection, course),
                                currentCredits + course.credits,
                                candidates, maxCandidates),
                      maxCandidates)

\* the body of  for (let i = 0; i < courses.length; i++)  from index i on
\* (indices from 1 here); yields the candidates array as it is when the
\* loop ends. currentSelection.push / pop around the recursive call is the
\* Append handed to it.
backtrackLoop(i, courses, fixedLectures, blockedTimes, targetCredits, constraints, strategy, tracks, interests, currentSelection, currentCredits, candidates, maxCandidates) ==
    IF i > Len(courses) THEN candidates
    ELSE LET course == courses[i]
             skip   == \/ currentCredits + course.credits > targetCredits + 3
                       \/ hasConflict(course, currentSelection)
             after  == IF skip THEN candidates
                       ELSE backtrack(SubSeq(courses, i + 1, Len(courses)),
                                      fixedLectures, blockedTimes, targetCredits,
                                      constraints, strategy, tracks, interests,
                                      Append(currentSelection, course),
                                      currentCredits + course.credits,
                                      candidates, maxCandidates)
         IN  backtrackLoop(i + 1, courses, fixedLectures, blockedTimes, targetCredits,
                           constraints, strategy, tracks, interests, currentSelection,
                           currentCredits, after, maxCandidates)

\* the search that goes on adding courses to a selection it has emitted
backtrackExtend(courses, fixedLectures, blockedTimes, targetCredits, constraints, strategy, tracks, interests, currentSelection, currentCredits, candidates, maxCandidates) ==
    IF Len(candidates) >= maxCandidates THEN candidates
    ELSE LET emitted ==
                 IF currentCredits >= targetCredits
                    /\ isValidSelection(currentSelection, constraints)
                 THEN Append(candidates,
                             newCandidate(currentSelection, currentCredits, fixedLectures))
                 ELSE candidates
         IN  backtrackLoop(1, courses, fixedLectures, blockedTimes, targetCredits,
                           constraints, strategy, tracks, interests, currentSelection,
                           currentCredits, emitted, maxCandidates)

\* the search emitting a selection only when its credits exceed the target
backtrackStrictlyAbove(courses, fixedLectures, blockedTimes, targetCredits, constraints, strategy, tracks, interests, currentSelection, currentCredits, candidates, maxCandidates) ==
    IF Len(candidates) >= maxCandidates THEN candidates
    ELSE IF currentCredits > targetCredits
    THEN IF isValidSelection(currentSelection, constraints)
         THEN Append(candidates,
                     newCandidate(currentSelection, currentCredits, fixedLectures))
         ELSE candidates
    ELSE backtrackLoop(1, courses, fixedLectures, blockedTimes, targetCredits,
                       constraints, strategy, tracks, interests, currentSelection,
                       currentCredits, candidates, maxCandidates)

\* the search with the cap tested by > instead of >=
backtrackCapLate(courses, fixedLectures, blockedTimes, targetCredits, constraints, strategy, tracks, interests, currentSelection, currentCredits, candidates, maxCandidates) ==
    IF Len(candidates) > maxCandidates THEN candidates
    ELSE IF currentCredits >= targetCredits
    THEN IF isValidSelection(currentSelection, constraints)
         THEN Append(candidates,
                     newCandidate(currentSelection, currentCredits, fixedLectures))
         ELSE candidates
    ELSE backtrackLoop(1, courses, fixedLectures, blockedTimes, targetCredits,
                       constraints, strategy, tracks, interests, currentSelection,
                       currentCredits, candidates, maxCandidates)

\* yields the candidates array as it is when the call returns
backtrack(courses, fixedLectures, blockedTimes, targetCredits, constraints, strategy, tracks, interests, currentSelection, currentCredits, candidates, maxCandidates) ==
    IF Len(candidates) >= maxCandidates THEN candidates
    ELSE IF currentCredits >= targetCredits
    THEN IF isValidSelection(currentSelection, constraints)
         THEN Append(candidates,
                     newCandidate(currentSelection, currentCredits, fixedLectures))
         ELSE candidates
    ELSE backtrackLoop(1, courses, fixedLectures, blockedTimes, targetCredits,
                       constraints, strategy, tracks, interests, currentSelection,
                       currentCredits, candidates, maxCandidates)

----------------------------------------------------------------------------
(* sortCoursesByPriority                                                   *)

\* 'team', '팀플' (two characters, written tim and peul) and 'group'
TeamWord  == <<"t", "e", "a", "m">>

TimPeul   == <<"tim", "peul">>

GroupWord == <<"g", "r", "o", "u", "p">>

hasTeamProjectTag(c) ==
    \E t \in DOMAIN c.tags :
        \/ includes(toLowerCase(c.tags[t]), TeamWord)
        \/ includes(toLowerCase(c.tags[t]), TimPeul)
        \/ includes(toLowerCase(c.tags[t]), GroupWord)

\* words.some(w => text.toLowerCase().includes(w.toLowerCase())
\*                 || c.tags.some(tag => tag.toLowerCase().includes(w.toLowerCase())))
matchesAny(text, tags, words) ==
    \E w \in DOMAIN words :
        \/ includes(toLowerCase(text), toLowerCase(words[w]))
        \/ \E t \in DOMAIN tags : includes(toLowerCase(tags[t]), toLowerCase(words[w]))

\* scoreA / scoreB of the comparator, for one course
priorityScore(c, strategy, tracks, interests, constraints) ==
    LET strategyPart ==
            IF strategy = "MAJOR_FOCUS" /\ Len(tracks) > 0
            THEN (IF matchesAny(c.major, c.tags, tracks) THEN 100 ELSE 0)
            ELSE IF strategy = "INTEREST_FOCUS" /\ Len(interests) > 0
            THEN (IF matchesAny(c.name, c.tags, interests) THEN 100 ELSE 0)
            ELSE 0
        onlinePart ==
            IF constraints.preferOnlineClasses /\ c.deliveryType = "ONLINE"
            THEN 20 ELSE 0
        teamPart ==
            IF constraints.avoidTeamProjects /\ ~ hasTeamProjectTag(c)
            THEN 15 ELSE 0
        morningPart ==
            IF constraints.avoidMorning
               /\ ~ \E i \in DOMAIN c.meetingTimes :
                        isMorningTime(c.meetingTimes[i].startTime)
            THEN 10 ELSE 0
        avoidDaysPart ==
            IF Len(constraints.avoidDays) > 0
               /\ ~ \E i \in DOMAIN c.meetingTimes :
                        arrayIncludes(constraints.avoidDays, c.meetingTimes[i].day)
            THEN 10 ELSE 0
        lunchPart ==
            IF constraints.keepLunchTime
               /\ ~ \E i \in DOMAIN c.meetingTimes :
                        overlapsLunchTime(c.meetingTimes[i])
            THEN 10 ELSE 0
    IN  strategyPart + onlinePart + teamPart + morningPart + avoidDaysPart
          + lunchPart + c.credits

\* the comparator handed to sorted.sort
compareCourses(a, b, strategy, tracks, interests, constraints) ==
    LET scoreA == priorityScore(a, strategy, tracks, interests, constraints)
        scoreB == priorityScore(b, strategy, tracks, interests, constraints)
    IN  IF scoreA = scoreB
        THEN localeCompare(a.courseId, b.courseId)
        ELSE scoreB - scoreA

\* the sort returning all but the last course of the sorted list
sortCoursesByPriorityDropLast(courses, strategy, tracks, interests, constraints) ==
    LET sorted == sortWith(courses,
                           [ i \in DOMAIN courses, j \in DOMAIN courses |->
                               compareCourses(courses[i], courses[j], strategy,
                                              tracks, interests, constraints) ])
    IN  SubSeq(sorted, 1, Len(sorted) - 1)

sortCoursesByPriority(courses, strategy, tracks, interests, constraints) ==
    sortWith(courses,
             [ i \in DOMAIN courses, j \in DOMAIN courses |->
                 compareCourses(courses[i], courses[j], strategy, tracks,
                                interests, constraints) ])

----------------------------------------------------------------------------
(* scoreCandidate                                                          *)

AllDays == <<"MON", "TUE", "WED", "THU", "FRI", "SAT", "SUN">>

WeekDays == <<"MON", "TUE", "WED", "THU", "FRI">>

RECURSIVE runViolationsNoTail(_, _, _, _)
\* the walk without the check of the last run after the loop
runViolationsNoTail(daySlotsList, i, consecutive, maxConsecutive) ==
    IF i > Len(daySlotsList)
    THEN 0
    ELSE LET prevEnd   == timeToMinutes(daySlotsList[i - 1].endTime)
             currStart == timeToMinutes(daySlotsList[i].startTime)
         IN  IF currStart - prevEnd <= 30
             THEN runViolationsNoTail(daySlotsList, i + 1, consecutive + 1, maxConsecutive)
             ELSE (IF consecutive > maxConsecutive
                   THEN consecutive - maxConsecutive ELSE 0)
                  + runViolationsNoTail(daySlotsList, i + 1, 1, maxConsecutive)

RECURSIVE runViolations(_, _, _, _)
\* the walk over one day's sorted slots from index i on, with the current
\* run length; yields the violations this day adds
runViolations(daySlotsList, i, consecutive, maxConsecutive) ==
    IF i > Len(daySlotsList)
    THEN IF consecutive > maxConsecutive THEN consecutive - maxConsecutive ELSE 0
    ELSE LET prevEnd   == timeToMinutes(daySlotsList[i - 1].endTime)
             currStart == timeToMinutes(daySlotsList[i].startTime)
         IN  IF currStart - prevEnd <= 30
             THEN runViolations(daySlotsList, i + 1, consecutive + 1, maxConsecutive)
             ELSE (IF consecutive > maxConsecutive
                   THEN consecutive - maxConsecutive ELSE 0)
                  + runViolations(daySlotsList, i + 1, 1, maxConsecutive)

RECURSIVE sumOverDays(_, _, _)
\* daySlots[day] for each day in turn, sorted by start time and walked
sumOverDays(days, slots, maxConsecutive) ==
    IF days = <<>> THEN 0
    ELSE LET ofDay == SelectSeq(slots, LAMBDA slot : slot.day = Head(days))
             daySlotsList ==
                 sortWith(ofDay,
                          [ i \in DOMAIN ofDay, j \in DOMAIN ofDay |->
                              timeToMinutes(ofDay[i].startTime)
                                - timeToMinutes(ofDay[j].startTime) ])
         IN  (IF ofDay = <<>> THEN 0
              ELSE runViolations(daySlotsList, 2, 1, maxConsecutive))
             + sumOverDays(Tail(days), slots, maxConsecutive)

\* the days of daySlots are visited once each; the sum does not depend on
\* the order in which Object.values lists them
countConsecutiveViolations(slots, maxConsecutive) ==
    sumOverDays(AllDays, slots, maxConsecutive)

\* words.some(w => text.includes(w) || tags.includes(w)), case-sensitive
matchesExactly(text, tags, words) ==
    \E w \in DOMAIN words : includes(text, words[w]) \/ arrayIncludes(tags, words[w])

scoreCandidate(candidate, targetCredits, constraints, strategy, tracks, interests) ==
    LET creditDiff == Abs(candidate.totalCredits - targetCredits)
        majorCourses ==
            SelectSeq(candidate.courses, LAMBDA c : matchesExactly(c.major, c.tags, tracks))
        interestCourses ==
            SelectSeq(candidate.courses, LAMBDA c : matchesExactly(c.name, c.tags, interests))
        strategyPart ==
            IF strategy = "MAJOR_FOCUS" THEN Len(majorCourses) * 10
            ELSE IF strategy = "INTEREST_FOCUS" THEN Len(interestCourses) * 10
            ELSE IF strategy = "MIX" THEN Len(candidate.courses) * 5
            ELSE 0
        consecutiveViolations ==
            IF constraints.maxConsecutiveClasses # 0
            THEN countConsecutiveViolations(candidate.timetableGrid,
                                            constraints.maxConsecutiveClasses)
            ELSE 0
        emptyDays ==
            Len(SelectSeq(WeekDays, LAMBDA day :
                ~ \E i \in DOMAIN candidate.timetableGrid :
                      candidate.timetableGrid[i].day = day))
        onlineCount ==
            Len(SelectSeq(candidate.courses, LAMBDA c : c.deliveryType = "ONLINE"))
        onlineOnlyDays ==
            SelectSeq(constraints.preferOnlineOnlyDays, LAMBDA day :
                \A k \in DOMAIN candidate.courses :
                    (\E i \in DOMAIN candidate.courses[k].meetingTimes :
                         candidate.courses[k].meetingTimes[i].day = day)
                    => candidate.courses[k].deliveryType = "ONLINE")
        score ==
            100 - creditDiff * 5 + strategyPart
              - (IF consecutiveViolations > 0 THEN consecutiveViolations * 5 ELSE 0)
              + emptyDays * 3
              + (IF constraints.preferOnlineClasses THEN onlineCount * 5 ELSE 0)
              + (IF Len(constraints.preferOnlineOnlyDays) > 0
                 THEN Len(onlineOnlyDays) * 8 ELSE 0)
        warnings ==
            IF consecutiveViolations > 0
            THEN << [ code |-> "maxConsecutiveClasses", count |-> consecutiveViolations ] >>
            ELSE <<>>
    IN  [ candidate EXCEPT !.score = Max(0, score), !.warnings = warnings ]

----------------------------------------------------------------------------
(* generateCandidates                                                      *)

maxCandidates == 50

\* const softConstraints = { ...constraints }; delete softConstraints.hardConstraints
softConstraintsOf(constraints) ==
    [ k \in DOMAIN constraints \ {"hardConstraints"} |-> constraints[k] ]

\* validCourses after the hard filter (constraints.hardConstraints || {})
validCoursesOf(availableCourses, fixedLectures, blockedTimes, constraints) ==
    filterValidCourses(availableCourses, fixedLectures, blockedTimes,
                       constraints.hardConstraints)

\* the search keeping the 2nd to 51st candidate it finds
searchCandidatesSkipFirst(availableCourses, fixedLectures, blockedTimes, targetCredits, constraints, strategy, tracks, interests) ==
    LET softConstraints == softConstraintsOf(constraints)
        validCourses    == validCoursesOf(availableCourses, fixedLectures,
                                          blockedTimes, constraints)
        sortedCourses   == sortCoursesByPriority(validCourses, strategy, tracks,
                                                 interests, softConstraints)
        found == backtrack(sortedCourses, fixedLectures, blockedTimes, targetCredits,
                           softConstraints, strategy, tracks, interests, <<>>, 0, <<>>,
                           maxCandidates + 1)
    IN  IF Len(found) > maxCandidates THEN Tail(found) ELSE found

\* the candidates array after the search, before scoring (generation order)
searchCandidates(availableCourses, fixedLectures, blockedTimes, targetCredits, constraints, strategy, tracks, interests) ==
    LET softConstraints == softConstraintsOf(constraints)
        validCourses    == validCoursesOf(availableCourses, fixedLectures,
                                          blockedTimes, constraints)
        sortedCourses   == sortCoursesByPriority(validCourses, strategy, tracks,
                                                 interests, softConstraints)
    IN  backtrack(sortedCourses, fixedLectures, blockedTimes, targetCredits,
                  softConstraints, strategy, tracks, interests, <<>>, 0, <<>>,
                  maxCandidates)

\* the call reporting the number of valid courses as candidatesGenerated
generateCandidatesCountingCourses(availableCourses, fixedLectures, blockedTimes, targetCredits, constraints, strategy, tracks, interests) ==
    LET softConstraints == softConstraintsOf(constraints)
        validCourses    == validCoursesOf(availableCourses, fixedLectures,
                                          blockedTimes, constraints)
        candidates ==
            searchCandidates(availableCourses, fixedLectures, blockedTimes,
                             targetCredits, constraints, strategy, tracks, interests)
        scoredCandidates ==
            [ i \in DOMAIN candidates |->
                scoreCandidate(candidates[i], targetCredits, softConstraints,
                               strategy, tracks, interests) ]
        sortedCandidates ==
            sortWith(scoredCandidates,
                     [ i \in DOMAIN scoredCandidates, j \in DOMAIN scoredCandidates |->
                         scoredCandidates[j].score - scoredCandidates[i].score ])
    IN  [ candidates |-> sortedCandidates,
          debug |-> [ candidatesGenerated |-> Len(validCourses),
                      combinationsFilteredByBlockedTimes |->
                          Len(availableCourses) - Len(validCourses) ] ]

generateCandidates(availableCourses, fixedLectures, blockedTimes, targetCredits, constraints, strategy, tracks, interests) ==
    LET initialCourseCount == Len(availableCourses)
        softConstraints == softConstraintsOf(constraints)
        validCourses    == validCoursesOf(availableCourses, fixedLectures,
                                          blockedTimes, constraints)
        filteredByBlockedTimesCount == initialCourseCount - Len(validCourses)
        candidates ==
            searchCandidates(availableCourses, fixedLectures, blockedTimes,
                             targetCredits, constraints, strategy, tracks, interests)
        scoredCandidates ==
            [ i \in DOMAIN candidates |->
                scoreCandidate(candidates[i], targetCredits, softConstraints,
                               strategy, tracks, interests) ]
        sortedCandidates ==
            sortWith(scoredCandidates,
                     [ i \in DOMAIN scoredCandidates, j \in DOMAIN scoredCandidates |->
                         scoredCandidates[j].score - scoredCandidates[i].score ])
    IN  [ candidates |-> sortedCandidates,
          debug |-> [ candidatesGenerated |-> Len(sortedCandidates),
                      combinationsFilteredByBlockedTimes |->
                          filteredByBlockedTimesCount ] ]

\* the constraints object with its hardConstraints member deleted, as the
\* caller would find it had softConstraints been the same object
argumentsAfterAliasedDelete(availableCourses, fixedLectures, blockedTimes, constraints) ==
    [ availableCourses |-> availableCourses,
      fixedLectures    |-> fixedLectures,
      blockedTimes     |-> blockedTimes,
      constraints      |-> [ constraints EXCEPT !.hardConstraints = NoConstraints ] ]

\* The caller's argument objects as they are when generateCandidates
\* returns. softConstraints is a copy ({ ...constraints }) and the delete
\* acts on the copy; filterValidCourses builds a new array with filter;
\* sortCoursesByPriority sorts the copy [...courses]; buildTimetableGrid
\* and countConsecutiveViolations push the slots into arrays of their own
\* and sort those; scoreCandidate writes to the candidate objects only.
argumentsAfterCall(availableCourses, fixedLectures, blockedTimes, constraints) ==
    [ availableCourses |-> availableCourses,
      fixedLectures    |-> fixedLectures,
      blockedTimes     |-> blockedTimes,
      constraints      |-> constraints ]

----------------------------------------------------------------------------
(* utils/responseBuilder.ts                                                *)

\* the entries pushed to conflictingConstraints: '차단 시간',
\* '회피 요일 (HARD)', '아침 수업 회피 (HARD)', '점심시간 보호 (HARD)',
\* '회피 요일' and '고정 과목'
BlockedTimesFactor == "blocked times"

HardAvoidDaysFactor == "avoided days (HARD)"

HardAvoidMorningFactor == "avoid morning (HARD)"

HardKeepLunchFactor == "keep lunch time (HARD)"

AvoidDaysFactor == "avoided days"

FixedCoursesFactor == "fixed courses"

satisfiesHardConstraints(candidate, parsedConstraints, blockedTimes) ==
    IF Len(candidate.conflicts) > 0 THEN FALSE
    ELSE ~ \E b \in DOMAIN blockedTimes :
           \E k \in DOMAIN candidate.courses :
           \E i \in DOMAIN candidate.courses[k].meetingTimes :
               timeSlotsOverlap(candidate.courses[k].meetingTimes[i], blockedTimes[b])

\* the error response; of the suggestions only their number is kept
generateFailureExplanation(requestBody, parsedConstraints, targetCredits, blockedTimes) ==
    LET hardConstraints == parsedConstraints.hardConstraints
        part(cond, label) == IF cond THEN << label >> ELSE <<>>
        conflictingConstraints ==
            part(Len(blockedTimes) > 0, BlockedTimesFactor)
            \o part(Len(hardConstraints.avoidDays) > 0, HardAvoidDaysFactor)
            \o part(hardConstraints.avoidMorning, HardAvoidMorningFactor)
            \o part(hardConstraints.keepLunchTime, HardKeepLunchFactor)
            \o part(Len(parsedConstraints.avoidDays) > 0
                      /\ Len(hardConstraints.avoidDays) = 0, AvoidDaysFactor)
            \o part(Len(requestBody.basket) > 0, FixedCoursesFactor)
        suggestions ==
            Len(conflictingConstraints) + (IF targetCredits > 15 THEN 1 ELSE 0)
    IN  [ error   |-> "HARD constraint conflict",
          details |-> [ conflictingConstraints |-> conflictingConstraints,
                        suggestions |-> IF suggestions > 0 THEN suggestions ELSE 3 ] ]

\* the first n elements: Array.prototype.slice(0, n)
sliceTo(s, n) == SubSeq(s, 1, IF Len(s) < n THEN Len(s) ELSE n)

\* the builder answering with an empty list of recommendations when no
\* candidate is valid
buildRecommendationResponseNoFailure(requestBody, parsedConstraints, candidateTimetables, targetCredits) ==
    [ recommendations |-> <<>>,
      debug |-> [ candidatesGenerated |-> Len(candidateTimetables) ] ]

\* Of a recommendation the rank, the credits, the score and the course ids
\* are kept; the colours and the explanation and warning texts are left out.
buildRecommendationResponse(requestBody, parsedConstraints, candidateTimetables, targetCredits) ==
    LET blockedTimes == requestBody.blockedTimes
        validCandidates ==
            SelectSeq(candidateTimetables, LAMBDA candidate :
                satisfiesHardConstraints(candidate, parsedConstraints, blockedTimes))
        sortedCandidates ==
            sortWith(validCandidates,
                     [ i \in DOMAIN validCandidates, j \in DOMAIN validCandidates |->
                         validCandidates[j].score - validCandidates[i].score ])
        topCandidates == sliceTo(sortedCandidates, 3)
    IN  IF Len(validCandidates) = 0
        THEN generateFailureExplanation(requestBody, parsedConstraints,
                                        targetCredits, blockedTimes)
        ELSE [ recommendations |->
                 [ rankIndex \in DOMAIN topCandidates |->
                     [ rank         |-> rankIndex,
                       totalCredits |-> topCandidates[rankIndex].totalCredits,
                       score        |-> topCandidates[rankIndex].score,
                       courses      |->
                           [ c \in DOMAIN topCandidates[rankIndex].courses |->
                               topCandidates[rankIndex].courses[c].courseId ] ] ],
               debug |-> [ candidatesGenerated |-> Len(candidateTimetables) ] ]

----------------------------------------------------------------------------
(* The requests the model explores                                         *)

Slot(day, sh, sm, eh, em) ==
    [ day |-> day, startTime |-> <<sh, sm>>, endTime |-> <<eh, em>> ]

Course(id, name, credits, major, tags, meetingTimes, deliveryType) ==
    [ courseId     |-> id,
      name         |-> name,
      credits      |-> credits,
      major        |-> major,
      tags         |-> tags,
      meetingTimes |-> meetingTimes,
      deliveryType |-> deliveryType ]

\* The courses catalogs are drawn from: two courses that touch at 10:00, one
\* that overlaps both, a lunch-time course, a course without meeting times,
\* a course whose own two slots overlap, and a five-credit course with three
\* slots on one day (09:00-10:00, 10:15-11:15, 11:15-12:15).
Pool ==
    << Course(<<1>>, <<"A", "I">>, 3, <<"c", "s">>, <<>>,
              << Slot("MON", 9, 0, 10, 0) >>, "OFFLINE"),
       Course(<<2>>, <<"d", "b">>, 3, <<"c", "s">>, << <<"T", "e", "a", "m">> >>,
              << Slot("MON", 10, 0, 11, 0) >>, "OFFLINE"),
       Course(<<3>>, <<"m", "l">>, 3, <<"e", "e">>, << <<"a", "i">> >>,
              << Slot("MON", 9, 30, 10, 30) >>, "ONLINE"),
       Course(<<4>>, <<"o", "s">>, 2, <<"c", "s">>, <<>>,
              << Slot("TUE", 12, 0, 13, 0) >>, "ONLINE"),
       Course(<<5>>, <<"n", "o">>, 1, <<"e", "e">>, <<>>,
              <<>>, "OFFLINE"),
       Course(<<6>>, <<"h", "w">>, 3, <<"e", "e">>, <<>>,
              << Slot("WED", 13, 0, 14, 0), Slot("WED", 13, 30, 14, 30) >>, "HYBRID"),
       Course(<<7>>, <<"p", "l">>, 5, <<"c", "s">>, <<>>,
              << Slot("THU", 9, 0, 10, 0), Slot("THU", 10, 15, 11, 15),
                 Slot("THU", 11, 15, 12, 15) >>, "OFFLINE") >>

\* the largest number of Pool courses in one catalog
MaxCatalog == 3

\* the largest catalog of one-credit Saturday courses
MaxFill == 8

\* the lowest target is -NegTarget
NegTarget == 30

\* one-credit courses on Saturday, back to back from 08:00, none overlapping
Filler(i) ==
    Course(<<9, i>>, <<"f">>, 1, <<"g", "e">>, <<>>,
           << Slot("SAT", 7 + i, 0, 8 + i, 0) >>, "OFFLINE")

Fillers(n) == [ i \in 1..n |-> Filler(i) ]

\* the sub-lists of Pool with at most MaxCatalog courses, in Pool order
PoolCatalogs ==
    LET picks == { S \in SUBSET (DOMAIN Pool) : Cardinality(S) <= MaxCatalog }
        pick(S) == SelectSeq(Pool, LAMBDA c : \E i \in S : Pool[i] = c)
    IN  { pick(S) : S \in picks }

\* a course whose only slot starts at "09:75", which is not a time
Malformed ==
    Course(<<0>>, <<"x", "x">>, 3, <<"c", "s">>, <<>>,
           << Slot("FRI", 9, 75, 10, 0) >>, "OFFLINE")

\* the malformed course before at most one Pool course
MalformedCatalogs ==
    { << Malformed >> \o cat : cat \in { c \in PoolCatalogs : Len(c) <= 1 } }

\* an eight-credit course with a group-project tag, Thursday afternoon
Heavy ==
    Course(<<6, 6>>, <<"l", "a", "b">>, 8, <<"e", "e">>, << <<"g", "r", "o", "u", "p">> >>,
           << Slot("THU", 14, 0, 15, 0) >>, "OFFLINE")

\* the two-credit lunch-time course before the eight-credit course
HeavyCatalogs == { << Pool[4], Heavy >> }

Catalogs ==
    PoolCatalogs \cup { Fillers(n) : n \in (MaxFill - 1)..MaxFill }
                 \cup MalformedCatalogs \cup HeavyCatalogs

FixedChoices ==
    { <<>>,
      << [ courseId |-> <<8>>, meetingTimes |-> << Slot("MON", 9, 0, 10, 0) >> ] >> }

BlockedChoices ==
    { <<>>,
      << Slot("TUE", 12, 30, 13, 30), Slot("MON", 11, 0, 12, 0),
         Slot("SAT", 7, 0, 23, 0) >> }

Targets == { -NegTarget, 0, 3, 4, 6 }

WithHard(soft, hard) ==
    [ k \in DOMAIN soft \cup {"hardConstraints"} |->
        IF k = "hardConstraints" THEN hard ELSE soft[k] ]

ConstraintChoices ==
    { WithHard(NoConstraints, NoConstraints),
      WithHard([ NoConstraints EXCEPT !.avoidDays = <<"MON">>,
                                      !.avoidMorning = TRUE,
                                      !.keepLunchTime = TRUE,
                                      !.avoidTeamProjects = TRUE ],
               NoConstraints),
      WithHard(NoConstraints,
               [ NoConstraints EXCEPT !.avoidDays = <<"MON">>,
                                      !.avoidMorning = TRUE,
                                      !.keepLunchTime = TRUE ]),
      WithHard([ NoConstraints EXCEPT !.maxClassesPerDay = 1 ], NoConstraints),
      WithHard([ NoConstraints EXCEPT !.maxClassesPerDay = 2,
                                      !.maxConsecutiveClasses = 1 ], NoConstraints),
      WithHard([ NoConstraints EXCEPT !.maxConsecutiveClasses = 2,
                                      !.preferOnlineClasses = TRUE,
                                      !.preferOnlineOnlyDays = <<"TUE">> ],
               NoConstraints) }

Strategies == { "MAJOR_FOCUS", "MIX", "INTEREST_FOCUS" }

Requests ==
    [ availableCourses : Catalogs,
      fixedLectures    : FixedChoices,
      blockedTimes     : BlockedChoices,
      targetCredits    : Targets,
      constraints      : ConstraintChoices,
      strategy         : Strategies,
      tracks           : { << <<"c", "s">> >> },
      interests        : { << <<"a", "i">> >> } ]

NoResult == [ candidates |-> <<>>,
              debug |-> [ candidatesGenerated |-> -1,
                          combinationsFilteredByBlockedTimes |-> -1 ] ]

NoSlot == Slot("MON", 0, 0, 0, 0)

NoResponse == [ none |-> TRUE ]

\* this.cache = null
NoCache == [ present |-> FALSE, data |-> <<>>, expired |-> FALSE ]

----------------------------------------------------------------------------
(* Specification of the scheduler: one generateCandidates call             *)

Init ==
    /\ request \in Requests
    /\ result = NoResult
    /\ pc = "idle"
    /\ slotA = NoSlot
    /\ slotB = NoSlot
    /\ overlapAB = FALSE
    /\ overlapBA = FALSE
    /\ opc = "off"
    /\ response = NoResponse
    /\ cache = NoCache
    /\ cachePromise = 0
    /\ promises = <<>>
    /\ callers = <<>>
    /\ stack = <<>>

\* the call; request' holds the argument objects as the call leaves them
GenerateCandidates ==
    /\ pc = "idle"
    /\ result' = generateCandidates(request.availableCourses, request.fixedLectures,
                                    request.blockedTimes, request.targetCredits,
                                    request.constraints, request.strategy,
                                    request.tracks, request.interests)
    /\ LET after == argumentsAfterCall(request.availableCourses,
                                       request.fixedLectures,
                                       request.blockedTimes, request.constraints)
       IN  request' = [ request EXCEPT
                          !.availableCourses = after.availableCourses,
                          !.fixedLectures    = after.fixedLectures,
                          !.blockedTimes     = after.blockedTimes,
                          !.constraints      = after.constraints ]
    /\ pc' = "done"
    /\ UNCHANGED <<slotA, slotB, overlapAB, overlapBA, opc, response, cache, cachePromise, promises, callers, stack>>

\* the route hands the candidates to the response builder; requestBody
\* carries the blocked times of the call and a basket with one course per
\* fixed lecture
BuildRecommendationResponse ==
    /\ pc = "done"
    /\ response' = buildRecommendationResponse(
                       [ basket       |-> request.fixedLectures,
                         blockedTimes |-> request.blockedTimes ],
                       request.constraints, result.candidates,
                       request.targetCredits)
    /\ pc' = "responded"
    /\ UNCHANGED <<request, result, slotA, slotB, overlapAB, overlapBA, opc, cache, cachePromise, promises, callers, stack>>

Next == GenerateCandidates \/ BuildRecommendationResponse

Spec == Init /\ [][Next]_vars

----------------------------------------------------------------------------
(* Specification of timeSlotsOverlap alone                                 *)

\* slot times run over the hours 9 .. 9 + HourSpan
HourSpan == 1

OverlapTimes == { <<h, m>> : h \in 9..(9 + HourSpan), m \in {0, 30, 59} }

OverlapSlots ==
    [ day : {"MON", "TUE"}, startTime : OverlapTimes, endTime : OverlapTimes ]

InitOverlap ==
    /\ slotA \in OverlapSlots
    /\ slotB \in OverlapSlots
    /\ overlapAB = FALSE
    /\ overlapBA = FALSE
    /\ opc = "idle"
    /\ request = CHOOSE r \in Requests : TRUE
    /\ result = NoResult
    /\ pc = "off"
    /\ response = NoResponse
    /\ cache = NoCache
    /\ cachePromise = 0
    /\ promises = <<>>
    /\ callers = <<>>
    /\ stack = <<>>

ApplyOverlap ==
    /\ opc = "idle"
    /\ overlapAB' = timeSlotsOverlap(slotA, slotB)
    /\ overlapBA' = timeSlotsOverlap(slotB, slotA)
    /\ opc' = "done"
    /\ UNCHANGED <<request, result, pc, slotA, slotB, response, cache, cachePromise, promises, callers, stack>>

NextOverlap == ApplyOverlap

SpecOverlap == InitOverlap /\ [][NextOverlap]_vars

----------------------------------------------------------------------------
(* services/airtableService.ts: getCourses and its catalog cache           *)

\* the characters of a courseId
idChars(id) == [ i \in DOMAIN id |-> ToString(id[i]) ]

\* an absent major or query is the empty string
filterCourses(courses, major, query) ==
    LET majorLower == toLowerCase(major)
        lowerQuery == toLowerCase(query)
        byMajor ==
            IF major # <<>>
            THEN SelectSeq(courses, LAMBDA c :
                     LET courseMajor == toLowerCase(c.major)
                     IN  \/ courseMajor = majorLower
                         \/ includes(courseMajor, majorLower)
                         \/ includes(majorLower, courseMajor))
            ELSE courses
    IN  IF query # <<>>
        THEN SelectSeq(byMajor, LAMBDA c :
                 \/ includes(toLowerCase(c.name), lowerQuery)
                 \/ includes(idChars(c.courseId), lowerQuery)
                 \/ \E t \in DOMAIN c.tags :
                        includes(toLowerCase(c.tags[t]), lowerQuery))
        ELSE byMajor

\* the number of concurrent callers of getCourses
NumCallers == 2

\* the number of getCourses calls made in all
MaxCalls == 4

Callers == 1..NumCallers

\* the catalogs a fetch from Airtable can yield
UpstreamCatalogs == { << Pool[1], Pool[3] >>, << Pool[2], Pool[3], Pool[4] >> }

\* the (major, query) arguments of the calls
CallArguments ==
    { [ major |-> <<>>,         query |-> <<>> ],
      [ major |-> <<"C", "S">>, query |-> <<"a", "i">> ] }

\* a caller that has not called yet
NewCaller ==
    [ pc       |-> "idle",       \* idle, fetching, waiting, returned or threw
      awaiting |-> 0,            \* the promise the call awaited, 0 if none
      major    |-> <<>>,
      query    |-> <<>>,
      courses  |-> <<>>,         \* the list the call returned
      calls    |-> 0 ]

RECURSIVE callsMade(_)
\* the calls made so far by the callers 1 .. n
callsMade(n) == IF n = 0 THEN 0 ELSE callers[n].calls + callsMade(n - 1)

\* the part of getCourses up to its first await, run by caller c
GetCourses(c, major, query) ==
    /\ callers[c].pc \in {"idle", "returned", "threw"}
    /\ callsMade(NumCallers) < MaxCalls
    /\ LET called == [ callers[c] EXCEPT !.major = major, !.query = query,
                                         !.calls = @ + 1, !.awaiting = 0,
                                         !.courses = <<>> ]
       IN  IF cache.present /\ ~ cache.expired
           THEN /\ callers' = [ callers EXCEPT ![c] =
                                  [ called EXCEPT
                                      !.pc = "returned",
                                      !.courses = filterCourses(cache.data, major, query) ] ]
                /\ UNCHANGED <<cachePromise, promises, stack>>
           ELSE IF cachePromise # 0
           THEN /\ callers' = [ callers EXCEPT ![c] =
                                  [ called EXCEPT !.pc = "waiting",
                                                  !.awaiting = cachePromise ] ]
                /\ UNCHANGED <<cachePromise, promises, stack>>
           ELSE /\ promises' = Append(promises, [ state |-> "pending", value |-> <<>> ])
                /\ cachePromise' = Len(promises) + 1
                /\ callers' = [ callers EXCEPT ![c] =
                                  [ called EXCEPT !.pc = "fetching",
                                                  !.awaiting = Len(promises) + 1 ] ]
    /\ UNCHANGED <<cache, request, result, pc, slotA, slotB, overlapAB, overlapBA, opc, response, stack>>

\* The continuations of the calls awaiting promise p, run when p settles.
\* They are microtasks queued in the order of the awaits, so they all run
\* before the next call is accepted. The call that started the fetch
\* awaits inside try / catch / finally; a call that found the fetch in
\* flight awaits outside any try.
callersAfterSettle(p, settled) ==
    [ c \in Callers |->
        IF callers[c].awaiting # p \/ callers[c].pc \notin {"fetching", "waiting"}
        THEN callers[c]
        ELSE IF settled.state = "fulfilled"
        THEN [ callers[c] EXCEPT
                 !.pc = "returned",
                 !.courses = filterCourses(settled.value, callers[c].major,
                                           callers[c].query) ]
        ELSE IF callers[c].pc = "fetching"
        THEN [ callers[c] EXCEPT !.pc = "returned", !.courses = <<>> ]
        ELSE [ callers[c] EXCEPT !.pc = "threw" ] ]

\* fetchFromAirtable resolves with the catalog courses
FetchSucceeds(p, courses) ==
    /\ p \in DOMAIN promises
    /\ promises[p].state = "pending"
    /\ LET settled == [ state |-> "fulfilled", value |-> courses ]
           fetcher == { c \in Callers : callers[c].pc = "fetching"
                                        /\ callers[c].awaiting = p }
       IN  /\ promises' = [ promises EXCEPT ![p] = settled ]
           /\ callers' = callersAfterSettle(p, settled)
           /\ cache' = IF fetcher # {}
                       THEN [ present |-> TRUE, data |-> courses, expired |-> FALSE ]
                       ELSE cache
           /\ cachePromise' = IF fetcher # {} THEN 0 ELSE cachePromise
    /\ UNCHANGED <<request, result, pc, slotA, slotB, overlapAB, overlapBA, opc, response, stack>>

\* the rejection handled without the finally block: cachePromise is kept
FetchFailsKeepsPromise(p) ==
    /\ p \in DOMAIN promises
    /\ promises[p].state = "pending"
    /\ LET settled == [ state |-> "rejected", value |-> <<>> ]
       IN  /\ promises' = [ promises EXCEPT ![p] = settled ]
           /\ callers' = callersAfterSettle(p, settled)
    /\ UNCHANGED <<cachePromise, cache, request, result, pc, slotA, slotB, overlapAB, overlapBA, opc, response, stack>>

\* fetchFromAirtable rejects
FetchFails(p) ==
    /\ p \in DOMAIN promises
    /\ promises[p].state = "pending"
    /\ LET settled == [ state |-> "rejected", value |-> <<>> ]
           fetcher == { c \in Callers : callers[c].pc = "fetching"
                                        /\ callers[c].awaiting = p }
       IN  /\ promises' = [ promises EXCEPT ![p] = settled ]
           /\ callers' = callersAfterSettle(p, settled)
           /\ cachePromise' = IF fetcher # {} THEN 0 ELSE cachePromise
    /\ UNCHANGED <<cache, request, result, pc, slotA, slotB, overlapAB, overlapBA, opc, response, stack>>

\* CACHE_TTL elapses: Date.now() - cache.timestamp < CACHE_TTL turns false
CacheExpires ==
    /\ cache.present
    /\ ~ cache.expired
    /\ cache' = [ cache EXCEPT !.expired = TRUE ]
    /\ UNCHANGED <<cachePromise, promises, callers, request, result, pc, slotA, slotB, overlapAB, overlapBA, opc, response, stack>>

InitAirtable ==
    /\ cache = NoCache
    /\ cachePromise = 0
    /\ promises = <<>>
    /\ callers = [ c \in Callers |-> NewCaller ]
    /\ stack = <<>>
    /\ request = CHOOSE r \in Requests : TRUE
    /\ result = NoResult
    /\ pc = "off"
    /\ slotA = NoSlot
    /\ slotB = NoSlot
    /\ overlapAB = FALSE
    /\ overlapBA = FALSE
    /\ opc = "off"
    /\ response = NoResponse

NextAirtable ==
    \/ \E c \in Callers : \E a \in CallArguments : GetCourses(c, a.major, a.query)
    \/ \E p \in DOMAIN promises : \E courses \in UpstreamCatalogs : FetchSucceeds(p, courses)
    \/ \E p \in DOMAIN promises : FetchFails(p)
    \/ CacheExpires

SpecAirtable == InitAirtable /\ [][NextAirtable]_vars

----------------------------------------------------------------------------
(* Specification of the failure explanation: the route converts the fixed  *)
(* lectures of the request body, generateFailureExplanation names the      *)
(* factors                                                                 *)

\* dayNumberToDayOfWeek: days[dayNum] || 'MON'
dayNumberToDayOfWeek(dayNum) ==
    IF dayNum \in 0..5
    THEN << "MON", "TUE", "WED", "THU", "FRI", "SAT" >>[dayNum + 1]
    ELSE "MON"

\* startHourToTime: 0 is 09:00, 1 is 10:00, ...
startHourToTime(startHour) == << 9 + startHour, 0 >>

\* one entry of requestData.fixedLectures, or a basket entry with a numeric
\* day, as the route converts it; duration counts half hours, so the end is
\* 9 + startHour + duration / 2 hours
convertFixedLecture(course) ==
    [ courseId     |-> course.code,
      meetingTimes |->
          << [ day       |-> dayNumberToDayOfWeek(course.day),
               startTime |-> startHourToTime(course.startHour),
               endTime   |-> << 9 + course.startHour + (course.duration \div 2),
                                (course.duration % 2) * 30 >> ] >> ]

\* the fixedLectures list of the route: the converted fixedLectures of the
\* request body followed by the converted basket entries
fixedLecturesOf(requestData) ==
    [ i \in DOMAIN requestData.fixedLectures |->
        convertFixedLecture(requestData.fixedLectures[i]) ]
    \o [ i \in DOMAIN requestData.basket |->
          convertFixedLecture(requestData.basket[i]) ]

\* fixed lectures as the request body carries them
RequestedLectures ==
    << [ code |-> <<8>>, credits |-> 3, day |-> 0, startHour |-> 0, duration |-> 2 ],
       [ code |-> <<9>>, credits |-> 2, day |-> 1, startHour |-> 1, duration |-> 3 ] >>

FailureRequests ==
    [ fixedLectures : { <<>>, << RequestedLectures[1] >>, RequestedLectures },
      basket        : { <<>>, << RequestedLectures[2] >> },
      blockedTimes  : BlockedChoices,
      constraints   : ConstraintChoices,
      targetCredits : { 3, 16 } ]

InitFailure ==
    /\ request \in FailureRequests
    /\ pc = "received"
    /\ result = NoResult
    /\ response = NoResponse
    /\ slotA = NoSlot
    /\ slotB = NoSlot
    /\ overlapAB = FALSE
    /\ overlapBA = FALSE
    /\ opc = "off"
    /\ cache = NoCache
    /\ cachePromise = 0
    /\ promises = <<>>
    /\ callers = <<>>
    /\ stack = <<>>

\* the route builds the fixedLectures list handed to the scheduler
ConvertFixedLectures ==
    /\ pc = "received"
    /\ result' = [ fixedLectures |-> fixedLecturesOf(request) ]
    /\ pc' = "converted"
    /\ UNCHANGED <<request, response, slotA, slotB, overlapAB, overlapBA, opc, cache, cachePromise, promises, callers, stack>>

\* no candidate is valid: the response builder explains the failure from
\* the request body
ExplainFailure ==
    /\ pc = "converted"
    /\ response' = generateFailureExplanation(request, request.constraints,
                                              request.targetCredits,
                                              request.blockedTimes)
    /\ pc' = "explained"
    /\ UNCHANGED <<request, result, slotA, slotB, overlapAB, overlapBA, opc, cache, cachePromise, promises, callers, stack>>

NextFailure == ConvertFixedLectures \/ ExplainFailure

SpecFailure == InitFailure /\ [][NextFailure]_vars

----------------------------------------------------------------------------
(* Specification of the search, one step of backtrack at a time            *)

\* the call handing the whole list to the recursive call
sliceFromKeepsAll(s, n) == s

\* Array.prototype.slice(n): the list without its first n elements
sliceFrom(s, n) == SubSeq(s, n + 1, Len(s))

\* a course without credits in the first Monday hour, and one whose slot
\* ends when it starts
ZeroCreditCourses ==
    << Course(<<3, 0>>, <<"s", "e", "m">>, 0, <<"c", "s">>, <<>>,
              << Slot("MON", 9, 0, 10, 0) >>, "OFFLINE"),
       Course(<<3, 1>>, <<"c", "o", "l">>, 0, <<"e", "e">>, <<>>,
              << Slot("WED", 10, 0, 10, 0) >>, "ONLINE") >>

SearchPool == ZeroCreditCourses \o << Pool[1], Pool[2], Pool[4] >>

\* the largest catalog handed to the step-wise search
MaxSearch == 3

\* a target no selection of the catalog reaches
FarTarget == 30

SearchCatalogs ==
    LET picks == { S \in SUBSET (DOMAIN SearchPool) : Cardinality(S) <= MaxSearch }
        pick(S) == SelectSeq(SearchPool, LAMBDA c : \E i \in S : SearchPool[i] = c)
    IN  { pick(S) : S \in picks }

SearchRequests ==
    [ availableCourses : SearchCatalogs,
      fixedLectures    : { <<>> },
      blockedTimes     : { <<>> },
      targetCredits    : { 0, 3, FarTarget },
      constraints      : { WithHard(NoConstraints, NoConstraints),
                           WithHard([ NoConstraints EXCEPT !.maxClassesPerDay = 1 ],
                                    NoConstraints) },
      strategy         : { "MIX", "MAJOR_FOCUS" },
      tracks           : { << <<"c", "s">> >> },
      interests        : { << <<"a", "i">> >> } ]

\* the activation record of one backtrack call: its courses argument, the
\* selection and credits it was entered with, and where it stands (at the
\* entry, in the loop before the course numbered i, or about to return)
Frame(courses, currentSelection, currentCredits) ==
    [ courses          |-> courses,
      currentSelection |-> currentSelection,
      currentCredits   |-> currentCredits,
      at               |-> "entry",
      i                |-> 0 ]

InitSearch ==
    /\ request \in SearchRequests
    /\ pc = "idle"
    /\ result = NoResult
    /\ stack = <<>>
    /\ response = NoResponse
    /\ slotA = NoSlot
    /\ slotB = NoSlot
    /\ overlapAB = FALSE
    /\ overlapBA = FALSE
    /\ opc = "off"
    /\ cache = NoCache
    /\ cachePromise = 0
    /\ promises = <<>>
    /\ callers = <<>>

\* generateCandidates filters and sorts the courses and makes the first call
StartSearch ==
    /\ pc = "idle"
    /\ LET validCourses  == validCoursesOf(request.availableCourses,
                                           request.fixedLectures,
                                           request.blockedTimes, request.constraints)
           sortedCourses == sortCoursesByPriority(validCourses, request.strategy,
                                                  request.tracks, request.interests,
                                                  softConstraintsOf(request.constraints))
       IN  stack' = << Frame(sortedCourses, <<>>, 0) >>
    /\ result' = [ result EXCEPT !.candidates = <<>> ]
    /\ pc' = "searching"
    /\ UNCHANGED <<request, response, slotA, slotB, overlapAB, overlapBA, opc, cache, cachePromise, promises, callers>>

\* the innermost call runs from its entry to its return or to its loop
EnterBacktrack ==
    /\ pc = "searching"
    /\ stack # <<>>
    /\ LET top == stack[Len(stack)]
       IN  /\ top.at = "entry"
           /\ IF Len(result.candidates) >= maxCandidates
              THEN /\ stack' = [ stack EXCEPT ![Len(stack)].at = "return" ]
                   /\ UNCHANGED result
              ELSE IF top.currentCredits >= request.targetCredits
              THEN /\ stack' = [ stack EXCEPT ![Len(stack)].at = "return" ]
                   /\ result' =
                        IF isValidSelection(top.currentSelection,
                                            softConstraintsOf(request.constraints))
                        THEN [ result EXCEPT !.candidates =
                                 Append(@, newCandidate(top.currentSelection,
                                                        top.currentCredits,
                                                        request.fixedLectures)) ]
                        ELSE result
              ELSE /\ stack' = [ stack EXCEPT ![Len(stack)].at = "loop",
                                              ![Len(stack)].i = 0 ]
                   /\ UNCHANGED result
    /\ UNCHANGED <<request, pc, response, slotA, slotB, overlapAB, overlapBA, opc, cache, cachePromise, promises, callers>>

\* one iteration of the loop of the innermost call: the course is skipped,
\* or it is pushed and the recursive call is made on courses.slice(i + 1);
\* the pop after the call leaves currentSelection as the frame holds it
LoopBacktrack ==
    /\ pc = "searching"
    /\ stack # <<>>
    /\ LET top == stack[Len(stack)]
       IN  /\ top.at = "loop"
           /\ top.i < Len(top.courses)
           /\ LET course == top.courses[top.i + 1]
                  next   == [ stack EXCEPT ![Len(stack)].i = top.i + 1 ]
              IN  IF \/ top.currentCredits + course.credits > request.targetCredits + 3
                     \/ hasConflict(course, top.currentSelection)
                  THEN stack' = next
                  ELSE stack' = Append(next,
                                       Frame(sliceFrom(top.courses, top.i + 1),
                                             Append(top.currentSelection, course),
                                             top.currentCredits + course.credits))
    /\ UNCHANGED <<request, result, pc, response, slotA, slotB, overlapAB, overlapBA, opc, cache, cachePromise, promises, callers>>

\* the innermost call returns; the search is over when the first call does
ReturnBacktrack ==
    /\ pc = "searching"
    /\ stack # <<>>
    /\ LET top == stack[Len(stack)]
       IN  \/ top.at = "return"
           \/ top.at = "loop" /\ top.i >= Len(top.courses)
    /\ stack' = SubSeq(stack, 1, Len(stack) - 1)
    /\ pc' = IF Len(stack) = 1 THEN "searched" ELSE pc
    /\ UNCHANGED <<request, result, response, slotA, slotB, overlapAB, overlapBA, opc, cache, cachePromise, promises, callers>>

NextSearch == StartSearch \/ EnterBacktrack \/ LoopBacktrack \/ ReturnBacktrack

SpecSearch == InitSearch /\ [][NextSearch]_vars

\* the search is one synchronous call: once started it runs to its end
SpecSearchRuns == SpecSearch /\ WF_vars(NextSearch)

----------------------------------------------------------------------------
(* The request-based scheduler (services/scheduler.ts with utils/time.ts): *)
(* filterInvalidCourses, then generateCandidates with backtracking and the *)
(* greedy fallback. Its time slots have the members day, start and end.    *)

\* utils/time.ts timeSlotsOverlap; the times of the model are valid, so its
\* timeToMinutes does not throw
timeSlotsOverlapStartEnd(slot1, slot2) ==
    IF slot1.day # slot2.day THEN FALSE
    ELSE LET start1 == timeToMinutes(slot1.start)
             end1   == timeToMinutes(slot1.end)
             start2 == timeToMinutes(slot2.start)
             end2   == timeToMinutes(slot2.end)
         IN  start1 < end2 /\ start2 < end1

hasTimeConflict(courseTimes, blockedTimes) ==
    \E i \in DOMAIN courseTimes : \E j \in DOMAIN blockedTimes :
        timeSlotsOverlapStartEnd(courseTimes[i], blockedTimes[j])

coursesOverlap(course1Times, course2Times) ==
    \E i \in DOMAIN course1Times : \E j \in DOMAIN course2Times :
        timeSlotsOverlapStartEnd(course1Times[i], course2Times[j])

RECURSIVE sumCredits(_)
\* courses.reduce((sum, c) => sum + c.credits, 0)
sumCredits(courses) ==
    IF courses = <<>> THEN 0 ELSE Head(courses).credits + sumCredits(Tail(courses))

\* the conflict of one course with the fixed lectures: with the catalog
\* course of the same courseId when there is one (allCourses.find yields the
\* first), else with the meeting times of the request
conflictsWithFixed(course, allCourses, fixedLectures) ==
    \E f \in DOMAIN fixedLectures :
        LET fixed == fixedLectures[f]
            found == { c \in DOMAIN allCourses : allCourses[c].courseId = fixed.courseId }
        IN  IF found # {}
            THEN coursesOverlap(course.meetingTimes,
                                allCourses[CHOOSE c \in found : \A d \in found : c <= d].meetingTimes)
            ELSE hasTimeConflict(course.meetingTimes, fixed.meetingTimes)

filterInvalidCourses(allCourses, fixedLectures, blockedTimes, req) ==
    LET parsedConstraints == req.parsedConstraints
    IN  SelectSeq(allCourses, LAMBDA course :
            /\ Len(course.meetingTimes) # 0
            /\ ~ hasTimeConflict(course.meetingTimes, blockedTimes)
            /\ ~ conflictsWithFixed(course, allCourses, fixedLectures)
            /\ ~ ( req.constraints.avoidMorning
                   /\ \E t \in DOMAIN course.meetingTimes :
                          course.meetingTimes[t].start[1] < 10 )
            /\ ~ ( Len(parsedConstraints.avoidDays) > 0
                   /\ \E t \in DOMAIN course.meetingTimes :
                          arrayIncludes(parsedConstraints.avoidDays,
                                        course.meetingTimes[t].day) )
            /\ ~ ( Len(parsedConstraints.preferOnlineOnlyDays) > 0
                   /\ (\E t \in DOMAIN course.meetingTimes :
                           arrayIncludes(parsedConstraints.preferOnlineOnlyDays,
                                         course.meetingTimes[t].day))
                   /\ ~ course.online )
            /\ ~ ( parsedConstraints.avoidTeamProjects /\ course.teamProject ))

\* the interests found in the name or in a tag of the course
interestMatches(course, interests) ==
    { n \in DOMAIN interests :
        \/ includes(toLowerCase(course.name), toLowerCase(interests[n]))
        \/ \E t \in DOMAIN course.tags :
               includes(toLowerCase(course.tags[t]), toLowerCase(interests[n])) }

\* the score prioritizeCourses gives one course
prioritizeScore(course, req) ==
    (IF course.major = req.user.major \/ course.department = req.user.major
     THEN 10 ELSE 0)
    + (IF arrayIncludes(req.tracks, course.track) THEN 8 ELSE 0)
    + 5 * Cardinality(interestMatches(course, req.interests))
    + (IF req.constraints.preferTeamProjects /\ course.teamProject THEN 3 ELSE 0)
    + (IF req.constraints.preferOnlineClasses /\ course.online THEN 3 ELSE 0)
    + (IF req.strategy = "MAJOR_FOCUS"
       THEN (IF course.major = req.user.major THEN 15 ELSE 0)
       ELSE IF req.strategy = "INTEREST_FOCUS"
       THEN 10 * Cardinality(interestMatches(course, req.interests))
       ELSE 0)

prioritizeCourses(courses, req) ==
    sortWith(courses,
             [ a \in DOMAIN courses, b \in DOMAIN courses |->
                 prioritizeScore(courses[b], req)
                   - prioritizeScore(courses[a], req) ])

\* some pair of different positions of allCourses overlaps
hasOverlapAmong(allCourses) ==
    \E i, j \in DOMAIN allCourses :
        i < j /\ coursesOverlap(allCourses[i].meetingTimes, allCourses[j].meetingTimes)

\* the depth below which generate goes on: 'if (depth > 10 ...) return'
maxDepth == 10

RECURSIVE generate(_, _, _, _, _, _, _, _, _)
RECURSIVE generateLoop(_, _, _, _, _, _, _, _, _, _)

\* the loop 'for (let i = startIndex; ...)' of generate from position i on
\* (positions count from 1); yields candidates as the loop leaves it
generateLoop(i, prioritizedCourses, fixedCourses, remainingCredits, maxCands, currentCourses, currentCredits, startIndex, depth, candidates) ==
    IF i > Len(prioritizedCourses) THEN candidates
    ELSE LET course == prioritizedCourses[i]
             skip   == \/ currentCredits + course.credits > remainingCredits + 5
                       \/ \E e \in DOMAIN currentCourses :
                              coursesOverlap(course.meetingTimes,
                                             currentCourses[e].meetingTimes)
             after  == IF skip THEN candidates
                       ELSE generate(prioritizedCourses, fixedCourses, remainingCredits,
                                     maxCands, Append(currentCourses, course),
                                     currentCredits + course.credits, i + 1,
                                     depth + 1, candidates)
         IN  generateLoop(i + 1, prioritizedCourses, fixedCourses, remainingCredits,
                          maxCands, currentCourses, currentCredits, startIndex,
                          depth, after)

\* the closure generate of generateCandidates; startIndex counts from 1
generate(prioritizedCourses, fixedCourses, remainingCredits, maxCands, currentCourses, currentCredits, startIndex, depth, candidates) ==
    IF Len(candidates) >= maxCands THEN candidates
    ELSE LET allCourses == fixedCourses \o currentCourses
             emitted ==
                 IF /\ currentCredits >= remainingCredits - 2
                    /\ currentCredits <= remainingCredits + 5
                    /\ ~ hasOverlapAmong(allCourses)
                 THEN Append(candidates,
                             [ courses      |-> allCourses,
                               totalCredits |-> sumCredits(allCourses) ])
                 ELSE candidates
         IN  IF depth > maxDepth \/ startIndex > Len(prioritizedCourses)
             THEN emitted
             ELSE generateLoop(startIndex, prioritizedCourses, fixedCourses,
                               remainingCredits, maxCands, currentCourses,
                               currentCredits, startIndex, depth, emitted)

RECURSIVE greedySelect(_, _, _, _, _)
\* the inner loop of one greedy attempt from position i on: the courses
\* selected when the loop ends or breaks
greedySelect(i, prioritizedCourses, targetCredits, selected, credits) ==
    IF i > Len(prioritizedCourses) \/ credits >= targetCredits - 2 THEN selected
    ELSE LET course == prioritizedCourses[i]
             selectedTimes == FlatSlots(selected)
             hasOverlap ==
                 \E t \in DOMAIN course.meetingTimes : \E e \in DOMAIN selectedTimes :
                     /\ course.meetingTimes[t].day = selectedTimes[e].day
                     /\ timeToMinutes(course.meetingTimes[t].start)
                          < timeToMinutes(selectedTimes[e].end)
                     /\ timeToMinutes(selectedTimes[e].start)
                          < timeToMinutes(course.meetingTimes[t].end)
         IN  IF ~ hasOverlap /\ credits + course.credits <= targetCredits + 5
             THEN greedySelect(i + 1, prioritizedCourses, targetCredits,
                               Append(selected, course), credits + course.credits)
             ELSE greedySelect(i + 1, prioritizedCourses, targetCredits,
                               selected, credits)

\* allCourses.map(c => c.courseId).sort().join(','): the ids in sort order
candidateKey(allCourses) ==
    LET ids == [ i \in DOMAIN allCourses |-> allCourses[i].courseId ]
    IN  sortWith(ids, [ a \in DOMAIN ids, b \in DOMAIN ids |->
                          localeCompare(ids[a], ids[b]) ])

RECURSIVE greedyAttempts(_, _, _, _, _, _, _)
\* the attempts of greedyGenerate from the given one on; used starts empty
greedyAttempts(attempt, used, prioritizedCourses, fixedCourses, targetCredits, candidates, maxCands) ==
    IF ~ (attempt < maxCands /\ Len(candidates) < maxCands) THEN candidates
    ELSE LET selected   == greedySelect(1, prioritizedCourses, targetCredits, <<>>, 0)
             allCourses == fixedCourses \o selected
             key        == candidateKey(allCourses)
             push       == Len(selected) > 0 /\ key \notin used
         IN  greedyAttempts(attempt + 1,
                            IF push THEN used \cup {key} ELSE used,
                            prioritizedCourses, fixedCourses, targetCredits,
                            IF push
                            THEN Append(candidates,
                                        [ courses      |-> allCourses,
                                          totalCredits |-> sumCredits(allCourses) ])
                            ELSE candidates,
                            maxCands)

greedyGenerate(prioritizedCourses, fixedCourses, targetCredits, candidates, maxCands) ==
    greedyAttempts(0, {}, prioritizedCourses, fixedCourses, targetCredits,
                   candidates, maxCands)

\* validCourses.filter(c => fixedCourseIds.has(c.courseId))
fixedCoursesOf(validCourses, fixedLectures) ==
    SelectSeq(validCourses, LAMBDA c :
        \E f \in DOMAIN fixedLectures : fixedLectures[f].courseId = c.courseId)

\* targetCredits - fixedCredits
remainingCreditsOf(validCourses, fixedLectures, req) ==
    req.targetCredits - sumCredits(fixedCoursesOf(validCourses, fixedLectures))

\* generateCandidates of the request-based scheduler
requestGenerateCandidates(validCourses, fixedLectures, req, maxCands) ==
    LET fixedCourses       == fixedCoursesOf(validCourses, fixedLectures)
        remainingCredits   == remainingCreditsOf(validCourses, fixedLectures, req)
        selectableCourses  ==
            SelectSeq(validCourses, LAMBDA c :
                ~ \E f \in DOMAIN fixedLectures : fixedLectures[f].courseId = c.courseId)
        prioritizedCourses == prioritizeCourses(selectableCourses, req)
        generated == generate(prioritizedCourses, fixedCourses, remainingCredits,
                              maxCands, <<>>, 0, 1, 0, <<>>)
        candidates ==
            IF Len(generated) < maxCands
            THEN greedyGenerate(prioritizedCourses, fixedCourses, remainingCredits,
                                generated, maxCands)
            ELSE generated
    IN  sliceTo(candidates, maxCands)

\* the cap generateRecommendations hands to generateCandidates
requestMaxCandidates == 20

StartEnd(day, sh, sm, eh, em) == [ day |-> day, start |-> <<sh, sm>>, end |-> <<eh, em>> ]

RequestCourse(id, name, credits, major, track, meetingTimes, online, teamProject) ==
    [ courseId |-> id, name |-> name, credits |-> credits, major |-> major,
      department |-> major, track |-> track, tags |-> <<>>,
      meetingTimes |-> meetingTimes, online |-> online, teamProject |-> teamProject ]

\* two courses that overlap on Monday morning, an online course on Tuesday,
\* a team-project course on Wednesday
RequestPool ==
    << RequestCourse(<<1>>, <<"A", "I">>, 3, <<"c", "s">>, <<"s", "w">>,
                     << StartEnd("MON", 9, 0, 10, 0) >>, FALSE, FALSE),
       RequestCourse(<<2>>, <<"d", "b">>, 3, <<"e", "e">>, <<>>,
                     << StartEnd("MON", 9, 30, 10, 30) >>, FALSE, FALSE),
       RequestCourse(<<3>>, <<"o", "s">>, 2, <<"c", "s">>, <<>>,
                     << StartEnd("TUE", 13, 0, 14, 0) >>, TRUE, FALSE),
       RequestCourse(<<4>>, <<"p", "l">>, 3, <<"e", "e">>, <<"s", "w">>,
                     << StartEnd("WED", 10, 0, 11, 0) >>, FALSE, TRUE) >>

\* the largest number of RequestPool courses in one catalog
MaxRequestCatalog == 3

\* the number of one-credit Saturday courses of the large catalog
RequestFill == 5

RequestFiller(i) ==
    RequestCourse(<<9, i>>, <<"f">>, 1, <<"g", "e">>, <<>>,
                  << StartEnd("SAT", 7 + i, 0, 8 + i, 0) >>, FALSE, FALSE)

RequestCatalogs ==
    LET picks == { S \in SUBSET (DOMAIN RequestPool) : Cardinality(S) <= MaxRequestCatalog }
        pick(S) == SelectSeq(RequestPool, LAMBDA c : \E i \in S : RequestPool[i] = c)
    IN  { pick(S) : S \in picks } \cup { [ i \in 1..RequestFill |-> RequestFiller(i) ] }

\* parsedConstraints is absent, or asks to avoid Wednesday and team projects
ParsedChoices ==
    { [ avoidDays |-> <<>>, preferOnlineOnlyDays |-> <<>>, avoidTeamProjects |-> FALSE ],
      [ avoidDays |-> <<"WED">>, preferOnlineOnlyDays |-> <<"TUE">>,
        avoidTeamProjects |-> TRUE ] }

RecommendRequests ==
    [ allCourses    : RequestCatalogs,
      fixedLectures : { <<>>,
                        << [ courseId |-> <<1>>,
                             meetingTimes |-> << StartEnd("MON", 9, 0, 10, 0) >> ] >>,
                        << [ courseId |-> <<7>>,
                             meetingTimes |-> << StartEnd("TUE", 13, 30, 14, 30) >> ] >> },
      blockedTimes  : { <<>>, << StartEnd("WED", 10, 30, 12, 0) >> },
      targetCredits : { 1, 3, 6, 10 },
      constraints   : { [ avoidMorning |-> FALSE, preferTeamProjects |-> FALSE,
                          preferOnlineClasses |-> FALSE ],
                        [ avoidMorning |-> TRUE, preferTeamProjects |-> TRUE,
                          preferOnlineClasses |-> TRUE ] },
      parsedConstraints : ParsedChoices,
      strategy      : { "MIX", "MAJOR_FOCUS", "INTEREST_FOCUS" },
      user          : { [ major |-> <<"c", "s">> ] },
      tracks        : { << <<"s", "w">> >> },
      interests     : { << <<"a", "i">> >> } ]

InitRequest ==
    /\ request \in RecommendRequests
    /\ pc = "idle"
    /\ result = [ validCourses |-> <<>>, candidates |-> <<>> ]
    /\ stack = <<>>
    /\ response = NoResponse
    /\ slotA = NoSlot
    /\ slotB = NoSlot
    /\ overlapAB = FALSE
    /\ overlapBA = FALSE
    /\ opc = "off"
    /\ cache = NoCache
    /\ cachePromise = 0
    /\ promises = <<>>
    /\ callers = <<>>

\* generateRecommendations filters the catalog
FilterInvalidCourses ==
    /\ pc = "idle"
    /\ result' = [ result EXCEPT !.validCourses =
                     filterInvalidCourses(request.allCourses, request.fixedLectures,
                                          request.blockedTimes, request) ]
    /\ pc' = "filtered"
    /\ UNCHANGED <<request, response, slotA, slotB, overlapAB, overlapBA, opc, cache, cachePromise, promises, callers, stack>>

\* and hands the valid courses to generateCandidates with the cap 20
RequestGenerateCandidates ==
    /\ pc = "filtered"
    /\ result' = [ result EXCEPT !.candidates =
                     requestGenerateCandidates(result.validCourses,
                                               request.fixedLectures, request,
                                               requestMaxCandidates) ]
    /\ pc' = "generated"
    /\ UNCHANGED <<request, response, slotA, slotB, overlapAB, overlapBA, opc, cache, cachePromise, promises, callers, stack>>

NextRequest == FilterInvalidCourses \/ RequestGenerateCandidates

SpecRequest == InitRequest /\ [][NextRequest]_vars

----------------------------------------------------------------------------
(* Vocabulary of the properties. These definitions restate the documented  *)
(* notions (overlap of half-open minute intervals, morning, lunch time)    *)
(* from the numbers of a time, independently of the operators above.       *)

Minutes(t) == 60 * t[1] + t[2]

Overlaps(a, b) ==
    /\ a.day = b.day
    /\ Minutes(a.startTime) < Minutes(b.endTime)
    /\ Minutes(b.startTime) < Minutes(a.endTime)

Done == pc = "done"

Cands == result.candidates

SoftOf(r) == softConstraintsOf(r.constraints)

HardOf(r) == r.constraints.hardConstraints

\* some slot of course c overlaps a slot of a fixed lecture of the request
OverlapsAFixedLecture(c) ==
    \E f \in DOMAIN request.fixedLectures :
    \E i \in DOMAIN c.meetingTimes :
    \E j \in DOMAIN request.fixedLectures[f].meetingTimes :
        Overlaps(c.meetingTimes[i], request.fixedLectures[f].meetingTimes[j])

\* some slot of course c overlaps a blocked time of the request
OverlapsABlockedTime(c) ==
    \E b \in DOMAIN request.blockedTimes :
    \E i \in DOMAIN c.meetingTimes :
        Overlaps(c.meetingTimes[i], request.blockedTimes[b])

\* course c breaks a member of the constraint bundle k: a slot on an avoided
\* day, a slot starting before 12:00 under avoidMorning, a slot overlapping
\* 12:00-13:00 under keepLunchTime
ViolatesDayOrTime(c, k) ==
    \E i \in DOMAIN c.meetingTimes :
        LET slot == c.meetingTimes[i]
        IN  \/ \E d \in DOMAIN k.avoidDays : k.avoidDays[d] = slot.day
            \/ k.avoidMorning /\ Minutes(slot.startTime) < 720
            \/ k.keepLunchTime /\ Minutes(slot.startTime) < 780
                               /\ Minutes(slot.endTime) > 720

RECURSIVE IsSublist(_, _)
\* sub is full with some elements left out, the others in their order
IsSublist(sub, full) ==
    IF sub = <<>> THEN TRUE
    ELSE IF full = <<>> THEN FALSE
    ELSE IF Head(sub) = Head(full) THEN IsSublist(Tail(sub), Tail(full))
    ELSE IsSublist(sub, Tail(full))

RECURSIVE CreditSum(_)
CreditSum(cs) == IF cs = <<>> THEN 0 ELSE Head(cs).credits + CreditSum(Tail(cs))

IdSet(cs) == { cs[i].courseId : i \in DOMAIN cs }

\* the number of slots the courses cs have on the given day
SlotsOnDay(cs, day) ==
    Cardinality({ <<p, i>> \in (DOMAIN cs) \X (1..3) :
                    i \in DOMAIN cs[p].meetingTimes /\ cs[p].meetingTimes[i].day = day })

----------------------------------------------------------------------------
(* C1 *)

\* C1 as stated: in every returned candidate no two meeting slots overlap,
\* two slots of one course included, and no slot of a candidate course
\* overlaps a slot of a fixed lecture or a blocked time.
C1_NoTwoSlotsOverlap ==
    Done =>
      \A k \in DOMAIN Cands :
        LET cs == Cands[k].courses
        IN  /\ \A p, q \in DOMAIN cs :
               \A i \in DOMAIN cs[p].meetingTimes :
               \A j \in DOMAIN cs[q].meetingTimes :
                   (p # q \/ i # j) => ~ Overlaps(cs[p].meetingTimes[i],
                                                  cs[q].meetingTimes[j])
            /\ \A p \in DOMAIN cs :
                   ~ OverlapsAFixedLecture(cs[p]) /\ ~ OverlapsABlockedTime(cs[p])

\* C1 (amended): in every returned candidate no slot of one course overlaps
\* a slot of another course of the candidate, and no slot of a candidate
\* course overlaps a slot of a fixed lecture or a blocked time.
C1_NoOverlapBetweenCourses ==
    Done =>
      \A k \in DOMAIN Cands :
        LET cs == Cands[k].courses
        IN  /\ \A p, q \in DOMAIN cs :
               \A i \in DOMAIN cs[p].meetingTimes :
               \A j \in DOMAIN cs[q].meetingTimes :
                   p # q => ~ Overlaps(cs[p].meetingTimes[i], cs[q].meetingTimes[j])
            /\ \A p \in DOMAIN cs :
                   ~ OverlapsAFixedLecture(cs[p]) /\ ~ OverlapsABlockedTime(cs[p])

\* a call with fixed lectures and blocked times returned a candidate of two
\* courses, although the catalog held a course overlapping a blocked time
C1_Witness ==
    /\ Done
    /\ request.fixedLectures # <<>>
    /\ request.blockedTimes # <<>>
    /\ \E k \in DOMAIN Cands : Len(Cands[k].courses) >= 2
    /\ \E i \in DOMAIN request.availableCourses :
           OverlapsABlockedTime(request.availableCourses[i])

----------------------------------------------------------------------------
(* C2 *)

\* C2: timeSlotsOverlap(a, b) is true exactly when the days are equal and
\* a.start < b.end and b.start < a.end in minutes since midnight; same-day
\* slots that touch do not overlap, slots on different days never overlap,
\* and swapping the arguments gives the same result.
C2_OverlapHalfOpenSymmetric ==
    opc = "done" =>
      /\ overlapAB = ( /\ slotA.day = slotB.day
                       /\ Minutes(slotA.startTime) < Minutes(slotB.endTime)
                       /\ Minutes(slotB.startTime) < Minutes(slotA.endTime) )
      /\ overlapBA = overlapAB
      /\ (slotA.day = slotB.day /\ Minutes(slotA.endTime) = Minutes(slotB.startTime))
            => ~ overlapAB
      /\ slotA.day # slotB.day => ~ overlapAB

\* two proper same-day slots, the first ending at the minute the second
\* starts, were compared and found not to overlap
C2_Witness ==
    /\ opc = "done"
    /\ slotA.day = slotB.day
    /\ Minutes(slotA.startTime) < Minutes(slotA.endTime)
    /\ Minutes(slotB.startTime) < Minutes(slotB.endTime)
    /\ Minutes(slotA.endTime) = Minutes(slotB.startTime)
    /\ ~ overlapAB
    /\ ~ overlapBA

----------------------------------------------------------------------------
(* C3 *)

\* C3: the hard filter returns a sub-list of the input courses in their
\* order, and a course is left out only if it has no meeting times, or
\* overlaps a fixed lecture, or overlaps a blocked time, or violates a hard
\* constraint member; hence no soft constraint member removes a course.
C3_HardFilterSound ==
    Done =>
      LET courses == request.availableCourses
          valid   == validCoursesOf(request.availableCourses, request.fixedLectures,
                                    request.blockedTimes, request.constraints)
      IN  /\ IsSublist(valid, courses)
          /\ result.debug.combinationsFilteredByBlockedTimes
                = Len(courses) - Len(valid)
          /\ \A i \in DOMAIN courses :
                 (~ \E v \in DOMAIN valid : valid[v] = courses[i])
                 => \/ Len(courses[i].meetingTimes) = 0
                    \/ OverlapsAFixedLecture(courses[i])
                    \/ OverlapsABlockedTime(courses[i])
                    \/ ViolatesDayOrTime(courses[i], HardOf(request))

\* under soft avoidDays / avoidMorning / keepLunchTime / avoidTeamProjects a
\* course breaking them was returned in a candidate, while the filter removed
\* another course of the catalog, and blocked times were given
C3_Witness ==
    /\ Done
    /\ result.debug.combinationsFilteredByBlockedTimes > 0
    /\ request.blockedTimes # <<>>
    /\ \E k \in DOMAIN Cands :
       \E p \in DOMAIN Cands[k].courses :
           ViolatesDayOrTime(Cands[k].courses[p], SoftOf(request))

----------------------------------------------------------------------------
(* C4 *)

\* C4: with constraints.hardConstraints set, no returned candidate contains
\* a course with a slot on a hard-avoided day, a morning slot under a hard
\* avoidMorning, or a slot overlapping 12:00-13:00 under a hard keepLunchTime.
C4_HardDayTimeRulesFiltered ==
    Done =>
      \A k \in DOMAIN Cands :
      \A p \in DOMAIN Cands[k].courses :
          ~ ViolatesDayOrTime(Cands[k].courses[p], HardOf(request))

----------------------------------------------------------------------------
(* C5 *)

\* the candidates the same request yields when its maxClassesPerDay is unset
UnlimitedSearch ==
    searchCandidates(request.availableCourses, request.fixedLectures,
                     request.blockedTimes, request.targetCredits,
                     [ request.constraints EXCEPT !.maxClassesPerDay = 0 ],
                     request.strategy, request.tracks, request.interests)

\* C5: with a soft maxClassesPerDay = k, a conflict-free selection that
\* reaches the target and has more than k slots on one day is still among
\* the returned candidates, and it carries a warning.
C5_DayLimitIsSoft ==
    (Done /\ request.constraints.maxClassesPerDay > 0) =>
      \A u \in DOMAIN UnlimitedSearch :
          (\E d \in DOMAIN AllDays :
               SlotsOnDay(UnlimitedSearch[u].courses, AllDays[d])
                 > request.constraints.maxClassesPerDay)
          => \E k \in DOMAIN Cands :
                 /\ Cands[k].courses = UnlimitedSearch[u].courses
                 /\ Cands[k].warnings # <<>>

----------------------------------------------------------------------------
(* C6 *)

\* C6 as stated: every candidate's totalCredits is the sum of its courses'
\* credits and lies in targetCredits .. targetCredits + 3, for every target.
C6_CreditWindow ==
    Done =>
      \A k \in DOMAIN Cands :
          /\ Cands[k].totalCredits = CreditSum(Cands[k].courses)
          /\ request.targetCredits <= Cands[k].totalCredits
          /\ Cands[k].totalCredits <= request.targetCredits + 3

\* C6 (amended): every candidate's totalCredits is the sum of its courses'
\* credits and is at least targetCredits; it is at most targetCredits + 3
\* whenever targetCredits >= -3.
C6_CreditWindowFromMinusThree ==
    Done =>
      \A k \in DOMAIN Cands :
          /\ Cands[k].totalCredits = CreditSum(Cands[k].courses)
          /\ request.targetCredits <= Cands[k].totalCredits
          /\ request.targetCredits >= -3
                => Cands[k].totalCredits <= request.targetCredits + 3

\* a candidate of several courses sits exactly at the top of the window
C6_Witness ==
    /\ Done
    /\ \E k \in DOMAIN Cands :
           /\ Len(Cands[k].courses) >= 2
           /\ Cands[k].totalCredits = request.targetCredits + 3

----------------------------------------------------------------------------
(* C7 *)

\* C7: generateCandidates never returns more than 50 candidates.
C7_AtMostFiftyCandidates ==
    Done => Len(Cands) <= 50

\* the search stopped at 50 candidates on a catalog that admits more: the
\* choices of targetCredits one-credit courses among the catalog's courses
C7_Witness ==
    /\ Done
    /\ Len(Cands) = 50
    /\ request.targetCredits = 4
    /\ Len(request.availableCourses) >= 8
    /\ \A i \in DOMAIN request.availableCourses :
           request.availableCourses[i].credits = 1

----------------------------------------------------------------------------
(* C8 *)

\* C8: for a catalog with unique course ids, no returned candidate contains
\* a course id twice and no two returned candidates have the same set of
\* course ids.
C8_NoDuplicateCourseSets ==
    (Done /\ \A i, j \in DOMAIN request.availableCourses :
                 i # j => request.availableCourses[i].courseId
                            # request.availableCourses[j].courseId)
    => /\ \A k \in DOMAIN Cands :
          \A p, q \in DOMAIN Cands[k].courses :
              p # q => Cands[k].courses[p].courseId # Cands[k].courses[q].courseId
       /\ \A k1, k2 \in DOMAIN Cands :
              k1 # k2 => IdSet(Cands[k1].courses) # IdSet(Cands[k2].courses)

\* several candidates of several courses each were returned, two of them
\* sharing a course
C8_Witness ==
    /\ Done
    /\ \E k1, k2 \in DOMAIN Cands :
           /\ k1 # k2
           /\ Len(Cands[k1].courses) >= 2
           /\ Len(Cands[k2].courses) >= 2
           /\ IdSet(Cands[k1].courses) \cap IdSet(Cands[k2].courses) # {}

----------------------------------------------------------------------------
(* C10 *)

\* candidate c breaks an active soft member of k: a class on an avoided day,
\* a morning class under avoidMorning, a class over lunch under
\* keepLunchTime, or a team-project course under avoidTeamProjects
ViolatesSoft(c, k) ==
    \E p \in DOMAIN c.courses :
        \/ ViolatesDayOrTime(c.courses[p], k)
        \/ k.avoidTeamProjects /\ hasTeamProjectTag(c.courses[p])

\* C10: a returned candidate that violates an active soft constraint carries
\* a warning and scores strictly lower than the same candidate scored without
\* that constraint.
C10_SoftViolationsPenalised ==
    Done =>
      \A k \in DOMAIN Cands :
          ViolatesSoft(Cands[k], SoftOf(request))
          => /\ Cands[k].warnings # <<>>
             /\ Cands[k].score
                  < scoreCandidate(Cands[k], request.targetCredits, NoConstraints,
                                   request.strategy, request.tracks,
                                   request.interests).score

----------------------------------------------------------------------------
(* C11 *)

\* the candidates of the request in the order the search generated them
Generated ==
    searchCandidates(request.availableCourses, request.fixedLectures,
                     request.blockedTimes, request.targetCredits,
                     request.constraints, request.strategy, request.tracks,
                     request.interests)

\* the place in the generation order gen of each candidate of cands (0 for
\* a candidate that was not generated)
GeneratedAt(cands, gen) ==
    [ k \in DOMAIN cands |->
        IF \E g \in DOMAIN gen : gen[g].courses = cands[k].courses
        THEN CHOOSE g \in DOMAIN gen : gen[g].courses = cands[k].courses
        ELSE 0 ]

\* C11: the returned list is ordered by score, highest first, and
\* candidates with equal score keep the order in which the search generated
\* them.
C11_SortedByScoreStable ==
    Done =>
      LET gen == Generated
          at  == GeneratedAt(Cands, gen)
      IN  /\ Len(Cands) = Len(gen)
          /\ \A k \in DOMAIN Cands : at[k] # 0
          /\ \A k1, k2 \in DOMAIN Cands :
                 k1 < k2 =>
                   \/ Cands[k1].score > Cands[k2].score
                   \/ /\ Cands[k1].score = Cands[k2].score
                      /\ at[k1] < at[k2]

\* the returned list holds two candidates of equal score and two of
\* different score, and a candidate generated later is returned earlier
C11_Witness ==
    /\ Done
    /\ \E k1, k2 \in DOMAIN Cands :
           /\ k1 < k2
           /\ Cands[k1].score = Cands[k2].score
    /\ LET at == GeneratedAt(Cands, Generated)
       IN  \E k1, k2 \in DOMAIN Cands :
               /\ k1 < k2
               /\ Cands[k1].score > Cands[k2].score
               /\ at[k1] > at[k2]

----------------------------------------------------------------------------
(* C12 *)

RECURSIVE SumSeq(_)
SumSeq(ns) == IF ns = <<>> THEN 0 ELSE Head(ns) + SumSeq(Tail(ns))

\* The violations of one day. The day's slots are put in the order of their
\* start; a slot continues the run of the slot before it when it starts at
\* most 30 minutes after that slot ends; a slot that does not continue a run
\* starts one, and the run extends over the slots that continue it. Every
\* run longer than limit counts for its length minus limit.
DayViolations(slots, day, limit) ==
    LET idx == { i \in DOMAIN slots : slots[i].day = day }
        n == Cardinality(idx)
        earlier(j, i) ==
            \/ Minutes(slots[j].startTime) < Minutes(slots[i].startTime)
            \/ (Minutes(slots[j].startTime) = Minutes(slots[i].startTime) /\ j < i)
        at == [ k \in 1..n |->
                  slots[CHOOSE i \in idx :
                          Cardinality({ j \in idx : earlier(j, i) }) = k - 1] ]
        continues ==
            [ k \in 1..n |->
                k > 1 /\ Minutes(at[k].startTime) - Minutes(at[k - 1].endTime) <= 30 ]
        runLength(a) ==
            Cardinality({ k \in a..n : \A j \in (a + 1)..k : continues[j] })
        excess(a) ==
            IF ~ continues[a] /\ runLength(a) > limit THEN runLength(a) - limit ELSE 0
    IN  SumSeq([ a \in 1..n |-> excess(a) ])

Violations(slots, limit) ==
    SumSeq([ d \in DOMAIN AllDays |-> DayViolations(slots, AllDays[d], limit) ])

\* the three same-day slots 09:00-10:00, 10:15-11:15, 11:15-12:15
ThreeInARow ==
    << Slot("THU", 9, 0, 10, 0), Slot("THU", 10, 15, 11, 15),
       Slot("THU", 11, 15, 12, 15) >>

\* C12: countConsecutiveViolations is the sum, over every maximal run of
\* length L > maxConsecutive on every day, of L - maxConsecutive, the slots
\* of a day taken in the order of their start and a slot continuing the run
\* when it starts at most 30 minutes after the previous slot ends; the three
\* slots 09:00-10:00, 10:15-11:15, 11:15-12:15 with maxConsecutive = 2 give
\* exactly 1; and the score is reduced by 5 per violation.
C12_ConsecutiveViolations ==
    (Done /\ SoftOf(request).maxConsecutiveClasses > 0) =>
      LET limit == SoftOf(request).maxConsecutiveClasses
          unlimited == [ SoftOf(request) EXCEPT !.maxConsecutiveClasses = 0 ]
      IN  /\ countConsecutiveViolations(ThreeInARow, 2) = 1
          /\ \A k \in DOMAIN Cands :
               LET v == Violations(Cands[k].timetableGrid, limit)
                   base == scoreCandidate(Cands[k], request.targetCredits,
                                          unlimited, request.strategy,
                                          request.tracks, request.interests).score
               IN  /\ countConsecutiveViolations(Cands[k].timetableGrid, limit) = v
                   /\ Cands[k].score = (IF base - 5 * v > 0 THEN base - 5 * v ELSE 0)
                   /\ v > 0 => /\ Len(Cands[k].warnings) = 1
                               /\ Cands[k].warnings[1].count = v
                   /\ v = 0 => Cands[k].warnings = <<>>

\* with maxConsecutiveClasses = 2 a returned candidate holds exactly the
\* three slots 09:00-10:00, 10:15-11:15, 11:15-12:15 and carries one
\* violation, which costs it 5 points
C12_Witness ==
    /\ Done
    /\ SoftOf(request).maxConsecutiveClasses = 2
    /\ \E k \in DOMAIN Cands :
           /\ Cands[k].timetableGrid = ThreeInARow
           /\ Cands[k].warnings = << [ code |-> "maxConsecutiveClasses", count |-> 1 ] >>
           /\ Cands[k].score + 5
                = scoreCandidate(Cands[k], request.targetCredits,
                                 [ SoftOf(request) EXCEPT !.maxConsecutiveClasses = 0 ],
                                 request.strategy, request.tracks,
                                 request.interests).score

----------------------------------------------------------------------------
(* C13 *)

\* C13: every returned candidate has score >= 0, whatever the credit
\* deviation, the strategy, the constraints and the consecutive-class
\* violations.
C13_ScoreNonNegative ==
    Done => \A k \in DOMAIN Cands : Cands[k].score >= 0

\* a returned candidate lies 30 credits or more from the target, so that
\* the credit penalty alone exceeds every bonus, and its score is 0
C13_Witness ==
    /\ Done
    /\ \E k \in DOMAIN Cands :
           /\ Abs(Cands[k].totalCredits - request.targetCredits) >= 30
           /\ Cands[k].score = 0

----------------------------------------------------------------------------
(* C14 *)

\* the courses of the request that have meeting times and overlap neither a
\* fixed lecture nor a blocked time, in priority order
EligibleInPriorityOrder ==
    sortCoursesByPriority(
        SelectSeq(request.availableCourses, LAMBDA c :
            /\ Len(c.meetingTimes) > 0
            /\ ~ OverlapsAFixedLecture(c)
            /\ ~ OverlapsABlockedTime(c)),
        request.strategy, request.tracks, request.interests, SoftOf(request))

\* two different courses share no overlapping pair of slots
ConflictFree(a, b) ==
    \A i \in DOMAIN a.meetingTimes :
    \A j \in DOMAIN b.meetingTimes : ~ Overlaps(a.meetingTimes[i], b.meetingTimes[j])

\* the sum of the credits of the courses at the positions S of sorted
CreditsAt(sorted, S) ==
    SumSeq([ i \in DOMAIN sorted |-> IF i \in S THEN sorted[i].credits ELSE 0 ])

\* the last position of S
LastOf(S) == CHOOSE i \in S : \A j \in S : j <= i

\* the non-empty sets of positions of sorted whose courses are pairwise
\* conflict-free, whose credits lie in target .. target + 3, and whose
\* credits without the last course in priority order are below the target
QualifyingSets(sorted, target) ==
    { S \in SUBSET (DOMAIN sorted) :
        /\ S # {}
        /\ CreditsAt(sorted, S) >= target
        /\ CreditsAt(sorted, S) <= target + 3
        /\ CreditsAt(sorted, S) - sorted[LastOf(S)].credits < target
        /\ \A i, j \in S : i < j => ConflictFree(sorted[i], sorted[j]) }

\* C14: when fewer than 50 such sets exist and no per-day limit is set,
\* every one of them is returned as a candidate. A catalog of two mutually
\* non-overlapping 3-credit courses with target 6 and no constraints, fixed
\* lectures or blocked times yields exactly one candidate, containing both
\* courses, with totalCredits 6.
C14_CompleteBelowCap ==
    (Done /\ SoftOf(request).maxClassesPerDay = 0) =>
      LET sorted == EligibleInPriorityOrder
          sets   == QualifyingSets(sorted, request.targetCredits)
          cat    == request.availableCourses
      IN  /\ Cardinality(sets) < 50 =>
                \A S \in sets :
                  \E k \in DOMAIN Cands :
                      /\ IdSet(Cands[k].courses) = { sorted[i].courseId : i \in S }
                      /\ Len(Cands[k].courses) = Cardinality(S)
                      /\ Cands[k].totalCredits = CreditsAt(sorted, S)
          /\ ( /\ Len(cat) = 2
               /\ cat[1].credits = 3
               /\ cat[2].credits = 3
               /\ ConflictFree(cat[1], cat[2])
               /\ request.targetCredits = 6
               /\ request.constraints = WithHard(NoConstraints, NoConstraints)
               /\ request.fixedLectures = <<>>
               /\ request.blockedTimes = <<>> )
             => /\ Len(Cands) = 1
                /\ IdSet(Cands[1].courses) = IdSet(cat)
                /\ Len(Cands[1].courses) = 2
                /\ Cands[1].totalCredits = 6

\* the catalog admits between 2 and 49 such sets, one of them of several
\* courses, and a pair of eligible courses that conflict
C14_Witness ==
    /\ Done
    /\ SoftOf(request).maxClassesPerDay = 0
    /\ LET sorted == EligibleInPriorityOrder
           sets   == QualifyingSets(sorted, request.targetCredits)
       IN  /\ Cardinality(sets) >= 2
           /\ Cardinality(sets) < 50
           /\ \E S \in sets : Cardinality(S) >= 2
           /\ \E i, j \in DOMAIN sorted : i # j /\ ~ ConflictFree(sorted[i], sorted[j])
           /\ Len(Cands) = Cardinality(sets)

----------------------------------------------------------------------------
(* C15 *)

Responded == pc = "responded"

\* the catalog is not empty and every course of it overlaps a blocked time
EveryCourseBlocked ==
    /\ Len(request.availableCourses) > 0
    /\ \A i \in DOMAIN request.availableCourses :
           OverlapsABlockedTime(request.availableCourses[i])

\* no valid course, no candidate, and the error response with no
\* recommendations whose conflicting factors include the blocked times
InfeasibleBecauseBlocked ==
    /\ validCoursesOf(request.availableCourses, request.fixedLectures,
                      request.blockedTimes, request.constraints) = <<>>
    /\ result.candidates = <<>>
    /\ result.debug.candidatesGenerated = 0
    /\ "error" \in DOMAIN response
    /\ "recommendations" \notin DOMAIN response
    /\ \E f \in DOMAIN response.details.conflictingConstraints :
           response.details.conflictingConstraints[f] = BlockedTimesFactor

\* C15 as stated: when every course in the catalog overlaps some blocked
\* time, the hard filter leaves no valid course, generateCandidates returns
\* zero candidates, and buildRecommendationResponse returns the error
\* response with no recommendations whose conflicting factors include
\* blocked times.
C15_AllBlockedIsInfeasible ==
    (Responded /\ EveryCourseBlocked) => InfeasibleBecauseBlocked

\* C15 (amended): the same, for a target of at least 1 credit.
C15_AllBlockedIsInfeasibleForPositiveTarget ==
    (Responded /\ EveryCourseBlocked /\ request.targetCredits >= 1)
    => InfeasibleBecauseBlocked

\* a catalog of several courses, all overlapping a blocked time, and a
\* positive target were answered with the error response
C15_Witness ==
    /\ Responded
    /\ EveryCourseBlocked
    /\ Len(request.availableCourses) >= 2
    /\ request.targetCredits >= 1
    /\ "error" \in DOMAIN response

----------------------------------------------------------------------------
(* C16 *)

\* the course has no meeting times, or a slot whose start or end is not a
\* time of day
MissingOrMalformed(c) ==
    \/ Len(c.meetingTimes) = 0
    \/ \E i \in DOMAIN c.meetingTimes :
           \/ ~ isValidTimeFormat(c.meetingTimes[i].startTime)
           \/ ~ isValidTimeFormat(c.meetingTimes[i].endTime)

\* C16: a course whose meeting-time data is missing or malformed appears in
\* no returned candidate, and the candidates are those the same call returns
\* for the catalog without such courses.
C16_MalformedCourseLeftOut ==
    Done =>
      /\ \A k \in DOMAIN Cands :
         \A p \in DOMAIN Cands[k].courses : ~ MissingOrMalformed(Cands[k].courses[p])
      /\ Cands = generateCandidates(
                     SelectSeq(request.availableCourses,
                               LAMBDA c : ~ MissingOrMalformed(c)),
                     request.fixedLectures, request.blockedTimes,
                     request.targetCredits, request.constraints, request.strategy,
                     request.tracks, request.interests).candidates

----------------------------------------------------------------------------
(* C17 *)

----------------------------------------------------------------------------
(* C18 *)

\* the generated count is the number of candidates the search produced and
\* the removed-courses count is the number of input courses minus the number
\* of courses that survive the hard filter
DiagnosticCounts ==
    /\ result.debug.candidatesGenerated = Len(Generated)
    /\ result.debug.combinationsFilteredByBlockedTimes
         = Len(request.availableCourses)
             - Len(SelectSeq(request.availableCourses, LAMBDA c :
                       /\ Len(c.meetingTimes) > 0
                       /\ ~ OverlapsAFixedLecture(c)
                       /\ ~ OverlapsABlockedTime(c)))

----------------------------------------------------------------------------
(* C19 *)

\* C19: getCourses never propagates an upstream failure: when the fetch
\* fails, the caller that started it and every caller that waited on it
\* receive an empty course list, and the cached catalog is left unchanged.
C19_FailureNeverPropagates ==
    /\ [](\A c \in Callers :
            /\ callers[c].pc # "threw"
            /\ (callers[c].awaiting # 0
                /\ promises[callers[c].awaiting].state = "rejected")
               => (callers[c].pc = "returned" /\ callers[c].courses = <<>>))
    /\ [][(\E p \in DOMAIN promises : FetchFails(p)) => cache' = cache]_vars

----------------------------------------------------------------------------
(* C20 *)

\* the number of times course c occurs in the list cs
Occurrences(cs, c) == Cardinality({ i \in DOMAIN cs : cs[i] = c })

\* C20: the output of sortCoursesByPriority is a permutation of its input
\* (same courses, same multiplicity): the courses offered to the search are
\* exactly those that survived the hard filter.
C20_SortIsPermutation ==
    Done =>
      LET valid  == validCoursesOf(request.availableCourses, request.fixedLectures,
                                   request.blockedTimes, request.constraints)
          sorted == sortCoursesByPriority(valid, request.strategy, request.tracks,
                                          request.interests, SoftOf(request))
      IN  /\ Len(sorted) = Len(valid)
          /\ \A i \in DOMAIN valid :
                 Occurrences(sorted, valid[i]) = Occurrences(valid, valid[i])
          /\ \A i \in DOMAIN sorted :
                 Occurrences(valid, sorted[i]) = Occurrences(sorted, sorted[i])

\* the hard filter removed a course and the sort changed the order of the
\* courses that survived
C20_Witness ==
    /\ Done
    /\ LET valid  == validCoursesOf(request.availableCourses, request.fixedLectures,
                                    request.blockedTimes, request.constraints)
           sorted == sortCoursesByPriority(valid, request.strategy, request.tracks,
                                           request.interests, SoftOf(request))
       IN  /\ Len(valid) >= 2
           /\ Len(valid) < Len(request.availableCourses)
           /\ sorted # valid

----------------------------------------------------------------------------
(* C21 *)

\* the course matches the active strategy: a track match under MAJOR_FOCUS,
\* an interest match under INTEREST_FOCUS
MatchesStrategy(c) ==
    \/ request.strategy = "MAJOR_FOCUS"
         /\ matchesAny(c.major, c.tags, request.tracks)
    \/ request.strategy = "INTEREST_FOCUS"
         /\ matchesAny(c.name, c.tags, request.interests)

\* the soft-constraint bonus of a course: 20 for an online course when
\* online classes are preferred, 15 for a course without team project when
\* those are avoided, 10 each for no morning slot, no slot on an avoided day
\* and no slot over lunch when these are asked for
SoftBonus(c) ==
    LET k == SoftOf(request)
    IN  (IF k.preferOnlineClasses /\ c.deliveryType = "ONLINE" THEN 20 ELSE 0)
        + (IF k.avoidTeamProjects /\ ~ hasTeamProjectTag(c) THEN 15 ELSE 0)
        + (IF k.avoidMorning
              /\ \A i \in DOMAIN c.meetingTimes :
                     Minutes(c.meetingTimes[i].startTime) >= 720
           THEN 10 ELSE 0)
        + (IF Len(k.avoidDays) > 0
              /\ \A i \in DOMAIN c.meetingTimes :
                     ~ arrayIncludes(k.avoidDays, c.meetingTimes[i].day)
           THEN 10 ELSE 0)
        + (IF k.keepLunchTime
              /\ \A i \in DOMAIN c.meetingTimes :
                     ~ ( Minutes(c.meetingTimes[i].startTime) < 780
                         /\ Minutes(c.meetingTimes[i].endTime) > 720 )
           THEN 10 ELSE 0)

\* course a comes before course b in the strict priority order: strategy
\* match, then the larger bonus, then more credits, then the smaller courseId
PrecedesStrictly(a, b) ==
    IF MatchesStrategy(a) # MatchesStrategy(b) THEN MatchesStrategy(a)
    ELSE IF SoftBonus(a) # SoftBonus(b) THEN SoftBonus(a) > SoftBonus(b)
    ELSE IF a.credits # b.credits THEN a.credits > b.credits
    ELSE localeCompare(a.courseId, b.courseId) <= 0

\* C21 as stated: sortCoursesByPriority orders the valid courses by the
\* composite key (strategy match, soft-constraint bonus, credits, ascending
\* courseId) in strict priority, a lower component never overriding a
\* higher one, for any credit values. The comparator adds the credits to the
\* weighted sum, so an eight-credit course with bonus 30 is placed before a
\* two-credit course with bonus 35.
C21_StrictPriorityOrder ==
    Done =>
      LET valid  == validCoursesOf(request.availableCourses, request.fixedLectures,
                                   request.blockedTimes, request.constraints)
          sorted == sortCoursesByPriority(valid, request.strategy, request.tracks,
                                          request.interests, SoftOf(request))
      IN  \A i, j \in DOMAIN sorted :
              i < j => PrecedesStrictly(sorted[i], sorted[j])

----------------------------------------------------------------------------
(* C22 *)

\* the candidates the search of the request emits when nothing stops it: the
\* same backtracking over the same sorted valid courses, with a cap no
\* search over that many courses can reach
UncappedSearch ==
    LET soft   == SoftOf(request)
        valid  == validCoursesOf(request.availableCourses, request.fixedLectures,
                                 request.blockedTimes, request.constraints)
        sorted == sortCoursesByPriority(valid, request.strategy, request.tracks,
                                        request.interests, soft)
    IN  backtrack(sorted, request.fixedLectures, request.blockedTimes,
                  request.targetCredits, soft, request.strategy, request.tracks,
                  request.interests, <<>>, 0, <<>>, 2 ^ Len(sorted) + 1)

\* C22: the returned candidates are exactly the first 50 candidates, in
\* generation order, of the search without a cap (all of them when there
\* are fewer), each scored as scoreCandidate scores it and the list ranked
\* by score with ties in generation order; reaching the cap yields a result
\* like any other.
C22_CapKeepsFirstFifty ==
    Done =>
      LET all   == UncappedSearch
          first == SubSeq(all, 1, IF Len(all) < 50 THEN Len(all) ELSE 50)
          at    == GeneratedAt(Cands, first)
      IN  /\ Len(Cands) = Len(first)
          /\ result.debug.candidatesGenerated = Len(first)
          /\ \A k \in DOMAIN Cands :
                 /\ at[k] # 0
                 /\ Cands[k] = scoreCandidate(first[at[k]], request.targetCredits,
                                              SoftOf(request), request.strategy,
                                              request.tracks, request.interests)
          /\ \A k1, k2 \in DOMAIN Cands :
                 k1 < k2 =>
                   /\ at[k1] # at[k2]
                   /\ \/ Cands[k1].score > Cands[k2].score
                      \/ /\ Cands[k1].score = Cands[k2].score
                         /\ at[k1] < at[k2]

\* the search without a cap emits more than 50 candidates and 50 are
\* returned
C22_Witness ==
    /\ Done
    /\ Len(UncappedSearch) > 50
    /\ Len(Cands) = 50

----------------------------------------------------------------------------
(* C24 *)

\* a is b without one or more of its last elements
IsProperPrefix(a, b) == Len(a) < Len(b) /\ a = SubSeq(b, 1, Len(a))

\* C24: the search adds no course to a selection that has reached the
\* target: in every returned candidate each proper prefix of the course
\* list has fewer credits than the target, and no returned candidate's
\* course list is a proper prefix of another's.
C24_NoCandidateExtendsAnother ==
    Done =>
      /\ \A k \in DOMAIN Cands :
             \A n \in 0..(Len(Cands[k].courses) - 1) :
                 CreditSum(SubSeq(Cands[k].courses, 1, n)) < request.targetCredits
      /\ \A k1, k2 \in DOMAIN Cands :
             ~ IsProperPrefix(Cands[k1].courses, Cands[k2].courses)

\* a returned candidate could take one more valid course, later in the
\* sorted list than its last course and free of conflict with it, without
\* leaving the credit window; another candidate starts with the same course
C24_Witness ==
    /\ Done
    /\ LET valid  == validCoursesOf(request.availableCourses, request.fixedLectures,
                                    request.blockedTimes, request.constraints)
           sorted == sortCoursesByPriority(valid, request.strategy, request.tracks,
                                           request.interests, SoftOf(request))
       IN  \E k \in DOMAIN Cands :
               LET cs == Cands[k].courses
               IN  /\ Len(cs) >= 1
                   /\ \E i, j \in DOMAIN sorted :
                          /\ i < j
                          /\ sorted[i] = cs[Len(cs)]
                          /\ \A c \in DOMAIN cs : ConflictFree(cs[c], sorted[j])
                          /\ Cands[k].totalCredits + sorted[j].credits
                                <= request.targetCredits + 3
    /\ \E k1, k2 \in DOMAIN Cands :
           /\ k1 # k2
           /\ Len(Cands[k1].courses) >= 2
           /\ Len(Cands[k2].courses) >= 2
           /\ Cands[k1].courses[1] = Cands[k2].courses[1]

----------------------------------------------------------------------------
(* C29 *)

\* C29: every returned candidate with at least one course has
\* totalCredits minus the credits of its last course strictly below
\* targetCredits, and its course list is a subsequence of the
\* priority-sorted valid course list. With targetCredits >= 1 every
\* candidate has at least one course; with targetCredits <= 0 the result is
\* exactly one candidate, with no course and totalCredits 0.
C29_MinimalInLastPick ==
    Done =>
      LET valid  == validCoursesOf(request.availableCourses, request.fixedLectures,
                                   request.blockedTimes, request.constraints)
          sorted == sortCoursesByPriority(valid, request.strategy, request.tracks,
                                          request.interests, SoftOf(request))
      IN  /\ \A k \in DOMAIN Cands :
                 LET cs == Cands[k].courses
                 IN  /\ Len(cs) >= 1 =>
                           Cands[k].totalCredits - cs[Len(cs)].credits
                             < request.targetCredits
                     /\ IsSublist(cs, sorted)
                     /\ request.targetCredits >= 1 => Len(cs) >= 1
          /\ request.targetCredits <= 0 =>
                 /\ Len(Cands) = 1
                 /\ Cands[1].courses = <<>>
                 /\ Cands[1].totalCredits = 0

\* a returned candidate of several courses leaves out a course of the
\* sorted valid list that stands between two of its own, and goes beyond the
\* target with its last course
C29_Witness ==
    /\ Done
    /\ request.targetCredits >= 1
    /\ LET valid  == validCoursesOf(request.availableCourses, request.fixedLectures,
                                    request.blockedTimes, request.constraints)
           sorted == sortCoursesByPriority(valid, request.strategy, request.tracks,
                                           request.interests, SoftOf(request))
       IN  \E k \in DOMAIN Cands :
               LET cs == Cands[k].courses
               IN  /\ Len(cs) >= 2
                   /\ Cands[k].totalCredits > request.targetCredits
                   /\ \E a, b, c \in DOMAIN sorted :
                          /\ a < b
                          /\ b < c
                          /\ sorted[a] = cs[1]
                          /\ sorted[c] = cs[Len(cs)]
                          /\ \A i \in DOMAIN cs : cs[i] # sorted[b]

----------------------------------------------------------------------------
(* C26 *)

\* the fetches in flight: the promises of fetchFromAirtable not yet settled
InFlight == { p \in DOMAIN promises : promises[p].state = "pending" }

\* C26: at most one Airtable fetch is in flight at any time, and
\* cachePromise is that fetch while it is in flight and null once it has
\* settled, by success or by failure. A getCourses call made while a fetch
\* is in flight starts no second fetch: it awaits the fetch in flight, and
\* when that fetch succeeds it returns the fetched courses filtered by its
\* own major and query, as does the call that started the fetch.
C26_SingleFetchInFlight ==
    /\ [](/\ Cardinality(InFlight) <= 1
          /\ (cachePromise = 0) <=> (InFlight = {})
          /\ (cachePromise # 0) => (InFlight = {cachePromise})
          /\ \A c \in Callers :
                 /\ callers[c].pc \in {"fetching", "waiting"}
                       => (callers[c].awaiting = cachePromise /\ cachePromise # 0)
                 /\ ( callers[c].pc = "returned"
                      /\ callers[c].awaiting # 0
                      /\ promises[callers[c].awaiting].state = "fulfilled" )
                       => callers[c].courses =
                            filterCourses(promises[callers[c].awaiting].value,
                                          callers[c].major, callers[c].query)
          /\ Cardinality({ c \in Callers : callers[c].pc = "fetching" }) <= 1)
    /\ [][(InFlight # {}) => (Len(promises') = Len(promises))]_vars

\* a second fetch, started after the cache expired, has succeeded: the call
\* that started it and the call that found it in flight have both returned
\* courses of that fetch, and cachePromise is null
C26_Witness ==
    /\ cachePromise = 0
    /\ Len(promises) >= 2
    /\ \E c1, c2 \in Callers :
           /\ c1 # c2
           /\ callers[c1].pc = "returned"
           /\ callers[c2].pc = "returned"
           /\ callers[c1].awaiting = Len(promises)
           /\ callers[c2].awaiting = Len(promises)
           /\ promises[Len(promises)].state = "fulfilled"
           /\ callers[c1].courses # callers[c2].courses

----------------------------------------------------------------------------
(* C25 *)

\* the factors the diagnostic names
NamedFactors ==
    { response.details.conflictingConstraints[i] :
        i \in DOMAIN response.details.conflictingConstraints }

\* C25 as stated: the diagnostic of generateFailureExplanation names
\* blocked times iff the request has a blocked time, each hard rule
\* (avoid days, avoid morning, keep lunch time) iff that hard rule is set,
\* and fixed courses iff the request contains at least one fixed lecture.
\* The fixed-course factor is read from the basket member alone, so a
\* request whose fixed lectures are in its fixedLectures member is
\* explained without it.
C25_FactorNamedIffPresent ==
    pc = "explained" =>
      LET hard == request.constraints.hardConstraints
      IN  /\ (BlockedTimesFactor \in NamedFactors) <=> (Len(request.blockedTimes) >= 1)
          /\ (HardAvoidDaysFactor \in NamedFactors) <=> (Len(hard.avoidDays) >= 1)
          /\ (HardAvoidMorningFactor \in NamedFactors) <=> hard.avoidMorning
          /\ (HardKeepLunchFactor \in NamedFactors) <=> hard.keepLunchTime
          /\ (FixedCoursesFactor \in NamedFactors) <=> (Len(result.fixedLectures) >= 1)

----------------------------------------------------------------------------
(* C23 *)

\* the valid courses of the request, in priority order
SortedValidCourses ==
    sortCoursesByPriority(
        validCoursesOf(request.availableCourses, request.fixedLectures,
                       request.blockedTimes, request.constraints),
        request.strategy, request.tracks, request.interests, SoftOf(request))

\* C23: the backtracking search terminates for every catalog and target,
\* also with zero-credit courses and with a target no selection reaches:
\* each recursive call works on a strictly shorter suffix of the sorted
\* course list than the call that made it, so the number of open recursive
\* calls never exceeds the number of valid courses; and when the search has
\* ended it has collected the candidates of backtrack.
C23_SearchTerminates ==
    /\ [](/\ Len(stack) - 1 <= Len(SortedValidCourses)
          /\ \A k \in DOMAIN stack :
                 k > 1 =>
                   /\ Len(stack[k].courses) < Len(stack[k - 1].courses)
                   /\ stack[k].courses =
                        SubSeq(stack[k - 1].courses,
                               Len(stack[k - 1].courses) - Len(stack[k].courses) + 1,
                               Len(stack[k - 1].courses))
          /\ pc = "searched" =>
                 /\ stack = <<>>
                 /\ result.candidates =
                      searchCandidates(request.availableCourses, request.fixedLectures,
                                       request.blockedTimes, request.targetCredits,
                                       request.constraints, request.strategy,
                                       request.tracks, request.interests))
    /\ <>(pc = "searched")

\* the recursion is as deep as the catalog allows: as many recursive calls
\* are open as there are valid courses, a zero-credit course is selected and
\* the target is out of reach
C23_Witness ==
    /\ pc = "searching"
    /\ request.targetCredits = FarTarget
    /\ Len(SortedValidCourses) >= 3
    /\ Len(stack) - 1 = Len(SortedValidCourses)
    /\ \E c \in DOMAIN stack[Len(stack)].currentSelection :
           stack[Len(stack)].currentSelection[c].credits = 0

----------------------------------------------------------------------------
(* C27 *)

RequestGenerated == pc = "generated"

\* C27 as stated: in the request-based scheduler no two returned candidates
\* have the same set of course ids. greedyGenerate starts from an empty set
\* of used keys, so it pushes its selection also when the backtracking pass
\* has emitted the same courses.
C27_NoDuplicateAcrossPasses ==
    RequestGenerated =>
      \A k1, k2 \in DOMAIN result.candidates :
          k1 # k2 => IdSet(result.candidates[k1].courses)
                       # IdSet(result.candidates[k2].courses)

----------------------------------------------------------------------------
(* C28 *)

\* the credits of the courses of a candidate that are not fixed courses
SelectedCredits(candidate) ==
    candidate.totalCredits
      - CreditSum(fixedCoursesOf(result.validCourses, request.fixedLectures))

\* C28 as stated: every returned candidate of the request-based scheduler
\* has selected credits in remaining - 2 .. remaining + 5, where remaining
\* is the target minus the credits of the fixed courses. The greedy
\* fallback pushes every non-empty selection, also one that stays below
\* remaining - 2 because the courses ran out.
C28_SelectedCreditsInWindow ==
    RequestGenerated =>
      LET remaining == remainingCreditsOf(result.validCourses, request.fixedLectures,
                                          request)
      IN  \A k \in DOMAIN result.candidates :
              /\ SelectedCredits(result.candidates[k]) >= remaining - 2
              /\ SelectedCredits(result.candidates[k]) <= remaining + 5

----------------------------------------------------------------------------
(* C30 *)

\* the catalog courses named by a fixed lecture of the request
CatalogFixedCourses ==
    SelectSeq(request.allCourses, LAMBDA c :
        \E f \in DOMAIN request.fixedLectures :
            request.fixedLectures[f].courseId = c.courseId)

\* C30 as stated: every candidate of the request-based scheduler contains
\* each fixed lecture whose courseId exists in the catalog, its totalCredits
\* is the sum over its courses, fixed ones included, and the remaining
\* target of the search is the requested target minus the fixed courses'
\* credits. filterInvalidCourses compares every course with the catalog
\* course of each fixed lecture, so the fixed course overlaps itself and is
\* not among the valid courses generateCandidates takes its fixed courses
\* from.
C30_FixedLecturesInEveryCandidate ==
    RequestGenerated =>
      /\ \A k \in DOMAIN result.candidates :
             /\ \A f \in DOMAIN CatalogFixedCourses :
                    \E c \in DOMAIN result.candidates[k].courses :
                        result.candidates[k].courses[c] = CatalogFixedCourses[f]
             /\ result.candidates[k].totalCredits
                  = CreditSum(result.candidates[k].courses)
      /\ remainingCreditsOf(result.validCourses, request.fixedLectures, request)
           = request.targetCredits - CreditSum(CatalogFixedCourses)

====
